---- MODULE Spec2Model ----
(***************************************************************************)
(* A model of aiopixiv: the request pipeline of BaseRequest / HTTPXRequest *)
(* (status classification, error-envelope decoding) and the PixivAPI       *)
(* facade (credentials, authenticate, authenticated requests, lifecycle).  *)
(***************************************************************************)
EXTENDS Integers, Sequences, FiniteSets, TLC

(***************************************************************************)
(* Python values.  None is a value of its own; an Optional[str] is None or *)
(* a string, and is truthy when it is a non-empty string.                  *)
(***************************************************************************)
None == "<None>"

Truthy(x) == x # None /\ x # ""

\* Python `a and b`: a when a is falsy, else b.
PyAnd(a, b) == IF Truthy(a) THEN b ELSE a

\* Python `a or b`: a when a is truthy, else b.
PyOr(a, b) == IF Truthy(a) THEN a ELSE b

(***************************************************************************)
(* Exceptions: the class, the message and the class of the chained cause   *)
(* (`raise X from Y`), None when nothing is chained.                       *)
(***************************************************************************)
Exc(type, msg, cause) == [type |-> type, msg |-> msg, cause |-> cause]

NoExc == Exc(None, None, None)

\* error.py: the classes deriving from PixivError.
PixivErrorTypes ==
    {"PixivError", "APIErrorDetail", "APIError", "AuthenticationError",
     "NotAuthenticated", "NotFound", "Forbidden", "NetworkError", "BadRequest"}

\* error.py: NetworkError and its subclass BadRequest.
NetworkErrorTypes == {"NetworkError", "BadRequest"}

IsPixivError(type) == type \in PixivErrorTypes

IsNetworkError(type) == type \in NetworkErrorTypes

(***************************************************************************)
(* Response bodies.  A body is the shape of the bytes the server sent:     *)
(*   utf8     the bytes are well-formed UTF-8                              *)
(*   top      what json.loads makes of the bytes decoded with              *)
(*            errors="replace": "invalid" (not JSON), "null", "list",      *)
(*            "str", "num", "obj"                                          *)
(*   len      the length of a top-level list or string                     *)
(*   keys     the keys of a top-level object                               *)
(*   errT, errKeys, errMsg   the member "error": its JSON type ("absent"   *)
(*            when the key is missing), its keys and its "message"         *)
(*   usrT, usrLen, usrKeys   the member "user" of a token response         *)
(*   piuT, piuKeys           the member "profile_image_urls" of the user   *)
(*   at, rt, uid             the access token, the refresh token and the   *)
(*            id of the user the body carries                              *)
(***************************************************************************)
BaseBody ==
    [utf8 |-> TRUE, top |-> "obj", len |-> 0, keys |-> {},
     errT |-> "absent", errKeys |-> {}, errMsg |-> None,
     usrT |-> "absent", usrLen |-> 0, usrKeys |-> {},
     piuT |-> "absent", piuKeys |-> {},
     at |-> None, rt |-> None, uid |-> None]

NoBody == [BaseBody EXCEPT !.top = "none"]

Scalar(top, len) == [BaseBody EXCEPT !.top = top, !.len = len]

Obj(keys) == [BaseBody EXCEPT !.keys = keys]

\* {"error": <value of JSON type t with the keys ks and the message m>}
ErrBody(t, ks, m) ==
    [BaseBody EXCEPT !.keys = {"error"}, !.errT = t, !.errKeys = ks, !.errMsg = m]

\* error.py: the parameters of APIErrorDetail.__init__ and of APIError.__init__.
DetailKeys == {"user_message", "message", "reason", "user_message_details"}

GenericKeys == {"error", "message", "body"}

ErrorBodies ==
    { Scalar("invalid", 0), Scalar("null", 0), Scalar("list", 0), Scalar("list", 1),
      Scalar("str", 1), Scalar("num", 0), Obj({}), Obj({"illust"}),
      ErrBody("str", {}, None), ErrBody("null", {}, None), ErrBody("list", {}, None),
      ErrBody("obj", {}, None),
      ErrBody("obj", {"message"}, "m"),
      ErrBody("obj", {"message"}, None),
      ErrBody("obj", {"message"}, ""),
      ErrBody("obj", DetailKeys, "m"),
      ErrBody("obj", DetailKeys \cup {"extra"}, "m"),
      ErrBody("obj", DetailKeys \ {"reason"}, "m"),
      ErrBody("obj", GenericKeys, "m"),
      ErrBody("obj", GenericKeys \ {"message"}, None),
      [Scalar("invalid", 0) EXCEPT !.utf8 = FALSE],
      [Obj({"illust"}) EXCEPT !.utf8 = FALSE] }

(***************************************************************************)
(* Results of the operators that model functions which may raise.          *)
(***************************************************************************)
Ret(v) == [ok |-> TRUE, val |-> v, exc |-> NoExc]

Raise(e) == [ok |-> FALSE, val |-> NoBody, exc |-> e]

(***************************************************************************)
(* BaseRequest.parse_json_payload: the decoded JSON value, or PixivError   *)
(* when json.loads fails (bytes are decoded with errors="replace").        *)
(***************************************************************************)
parse_json_payload_strict(payload) ==
    IF payload.top = "invalid" \/ ~payload.utf8
    THEN Raise(Exc("PixivError", "Invalid server response", "JSONDecodeError"))
    ELSE Ret(payload)

parse_json_payload(payload) ==
    IF payload.top = "invalid"
    THEN Raise(Exc("PixivError", "Invalid server response", "JSONDecodeError"))
    ELSE Ret(payload)

(***************************************************************************)
(* What `__import__("ipdb").set_trace()` does depends on the installation: *)
(* the import fails, or the debugger stops the program and the operator    *)
(* continues or quits.                                                     *)
(***************************************************************************)
IpdbOutcomes == {"missing", "continue", "quit"}

\* APIErrorDetail(**response_data), else APIError(**response_data), else None:
\* a call succeeds exactly when the keys are the constructor's parameters.
DecodeApiError(errKeys, message) ==
    IF errKeys = DetailKeys THEN Exc("APIErrorDetail", message, None)
    ELSE IF errKeys = GenericKeys THEN Exc("APIError", message, None)
    ELSE NoExc

\* The `match code` of _parse_error.  ok = FALSE: an exception left the match.
StatusError(code, message, ipdb) ==
    IF code = 403 THEN Ret(Exc("Forbidden", message, None))
    ELSE IF code = 404 THEN Ret(Exc("NotFound", message, None))
    ELSE IF code = 400 THEN
        CASE ipdb = "missing" -> Raise(Exc("ModuleNotFoundError", "No module named 'ipdb'", None))
          [] ipdb = "quit" -> Raise(Exc("BdbQuit", "", None))
          [] OTHER -> Ret(Exc("BadRequest", message, None))
    ELSE IF code = 502
        THEN Ret(Exc("NetworkError", "Bad Gateway - Invalid response from server", None))
    ELSE Ret(Exc("NetworkError",
                 PyOr(message, "NetworkError") \o " (" \o ToString(code) \o ")", None))

(***************************************************************************)
(* BaseRequest._parse_error.  The result is                                *)
(*   [ok |-> TRUE, api |-> api_error or NoExc, err |-> error], or          *)
(*   [ok |-> FALSE, exc |-> the exception that left the method].           *)
(***************************************************************************)
ParsedErr(api, err) == [ok |-> TRUE, api |-> api, err |-> err, exc |-> NoExc]

ParseErrRaise(e) == [ok |-> FALSE, api |-> NoExc, err |-> NoExc, exc |-> e]

WithStatus(code, message, api, ipdb) ==
    LET s == StatusError(code, message, ipdb)
    IN  IF s.ok THEN ParsedErr(api, s.val) ELSE ParseErrRaise(s.exc)

parse_error(code, payload, ipdb) ==
    LET j == parse_json_payload(payload)
    IN  IF ~j.ok THEN WithStatus(code, "", NoExc, ipdb)
        ELSE IF payload.top # "obj"
            THEN ParseErrRaise(Exc("TypeError", "not subscriptable with a str", None))
        ELSE IF "error" \notin payload.keys THEN WithStatus(code, "", NoExc, ipdb)
        ELSE IF payload.errT # "obj"
            THEN ParseErrRaise(Exc("AttributeError", "no attribute 'get'", None))
        ELSE LET message == IF "message" \in payload.errKeys
                            THEN payload.errMsg ELSE "Unknown HTTPError"
             IN  WithStatus(code, message, DecodeApiError(payload.errKeys, message), ipdb)

(***************************************************************************)
(* The transport.  What the network does with one call:                    *)
(*   [t |-> "resp", code, body]  a response                                *)
(*   [t |-> "exc", exc]          the backend raised: "HTTPError" is        *)
(*        httpx.HTTPError, "Exception" any other Exception, and            *)
(*        "CancelledError" the cancellation of the awaiting task           *)
(***************************************************************************)
Resp(code, body) == [t |-> "resp", code |-> code, body |-> body, exc |-> None]

NetExc(type) == [t |-> "exc", code |-> 0, body |-> NoBody, exc |-> type]

BackendExcTypes == {"HTTPError", "Exception", "CancelledError"}

\* HTTPXRequest.do_request / do_stream: a closed client raises RuntimeError before
\* any I/O, httpx.HTTPError becomes NetworkError, anything else passes through.
do_request(closed, net) ==
    IF closed THEN [t |-> "exc", code |-> 0, body |-> NoBody,
                    exc |-> Exc("RuntimeError", "This Request is not initialized", None)]
    ELSE IF net.t = "exc"
        THEN [net EXCEPT !.exc = IF net.exc = "HTTPError"
                                 THEN Exc("NetworkError", "httpx.HTTPError", "HTTPError")
                                 ELSE Exc(net.exc, "", None)]
    ELSE [net EXCEPT !.exc = NoExc]

\* The except clauses around do_request / do_stream.
TranslateNoCancel(e) ==
    IF IsPixivError(e.type) THEN e
    ELSE Exc("PixivError", "Unknown error in HTTP request", e.type)

Translate(e) ==
    IF e.type = "CancelledError" \/ IsPixivError(e.type) THEN e
    ELSE Exc("PixivError", "Unknown error in HTTP request", e.type)

\* `raise api_error from error` when an API error was decoded, else `raise error`.
RaiseParsed(pe) ==
    IF pe.api.type # None THEN Raise([pe.api EXCEPT !.cause = pe.err.type])
    ELSE Raise(pe.err)

IsSuccess(code) == 200 <= code /\ code <= 299

\* BaseRequest.request
request(closed, net, ipdb) ==
    LET r == do_request(closed, net)
    IN  IF r.t = "exc" THEN Raise(Translate(r.exc))
        ELSE IF IsSuccess(r.code) THEN Ret(r.body)
        ELSE LET pe == parse_error(r.code, r.body, ipdb)
             IN  IF ~pe.ok THEN Raise(pe.exc) ELSE RaiseParsed(pe)

\* BaseRequest.parsed_request
parsed_request(closed, net, ipdb) ==
    LET r == request(closed, net, ipdb)
    IN  IF r.ok THEN parse_json_payload(r.val) ELSE r

\* BaseRequest.stream (and retrieve, which only forwards to it): the result on
\* entering the context; ok means the byte iterator was handed to the caller.
stream(closed, net, ipdb) ==
    LET r == do_request(closed, net)
    IN  IF r.t = "exc" THEN Raise(Translate(r.exc))
        ELSE IF IsSuccess(r.code) THEN Ret(r.body)
        ELSE LET pe == parse_error(r.code, r.body, ipdb)
             IN  IF ~pe.ok THEN Raise(Translate(pe.exc)) ELSE RaiseParsed(pe)

(***************************************************************************)
(* The facade: pure parts.                                                 *)
(***************************************************************************)
\* PixivAPI.is_authenticated: bool(self._access_token and self._refresh_token)
IsAuthenticatedOr(at, rt) == Truthy(PyOr(at, rt))

is_authenticated(at, rt) == Truthy(PyAnd(at, rt))

\* PixivAPI._authentication_headers: the Authorization header, or NotAuthenticated.
HeadersFromRefresh(at, rt) ==
    IF ~Truthy(rt) THEN [ok |-> FALSE, auth |-> None]
    ELSE [ok |-> TRUE, auth |-> "Bearer " \o rt]

authentication_headers(at, rt) ==
    IF ~Truthy(at) THEN [ok |-> FALSE, auth |-> None]
    ELSE [ok |-> TRUE, auth |-> "Bearer " \o at]

\* The guard of authenticate(): neither the argument nor the stored token is set.
MissingTokenIsNone(arg, stored) == arg = None /\ stored = None

MissingToken(arg, stored) == ~Truthy(arg) /\ ~Truthy(stored)

\* models/authentication.py: the parameters of the three constructors.
PiuKeys == {"px_16x16", "px_50x50", "px_170x170"}

UserKeys ==
    {"id", "name", "account", "profile_image_urls", "mail_address",
     "is_mail_authorized", "is_premium", "x_restrict"}

AuthKeys == {"access_token", "refresh_token", "expires_in", "user", "token_type", "scope"}

\* A decoding result: "none" (de_json returned None), "obj" or "raise".
Decoded(st, exc) == [st |-> st, exc |-> exc]

\* PixivObject._de_json for AuthenticatedUserImageUrls: cls(**data) unless data is None.
piu_de_json(b) ==
    IF b.piuT = "null" THEN Decoded("none", None)
    ELSE IF b.piuT = "obj" /\ b.piuKeys = PiuKeys THEN Decoded("obj", None)
    ELSE Decoded("raise", "TypeError")

\* AuthenticatedUser.de_json
user_de_json(b) ==
    IF b.usrT = "null" THEN Decoded("none", None)
    ELSE IF b.usrT \in {"str", "num"} THEN Decoded("raise", "AttributeError")
    ELSE IF b.usrT = "list"
        THEN IF b.usrLen = 0 THEN Decoded("none", None) ELSE Decoded("raise", "TypeError")
    ELSE IF b.usrKeys = {} THEN Decoded("none", None)
    ELSE IF "profile_image_urls" \notin b.usrKeys THEN Decoded("raise", "KeyError")
    ELSE IF piu_de_json(b).st = "raise" THEN piu_de_json(b)
    ELSE IF b.usrKeys = UserKeys THEN Decoded("obj", None)
    ELSE Decoded("raise", "TypeError")

\* Authentication.de_json, with data.pop("response", None) in place of data.pop("response").
de_json_lenient(b) ==
    IF b.top = "null" THEN Decoded("none", None)
    ELSE IF b.top \in {"str", "num"} THEN Decoded("raise", "AttributeError")
    ELSE IF b.top = "list"
        THEN IF b.len = 0 THEN Decoded("none", None) ELSE Decoded("raise", "TypeError")
    ELSE IF b.keys = {} THEN Decoded("none", None)
    ELSE IF "user" \notin b.keys THEN Decoded("obj", None)
    ELSE IF user_de_json(b).st = "raise" THEN user_de_json(b)
    ELSE Decoded("obj", None)

\* Authentication.de_json
de_json(b) ==
    IF b.top = "null" THEN Decoded("none", None)
    ELSE IF b.top \in {"str", "num"} THEN Decoded("raise", "AttributeError")
    ELSE IF b.top = "list"
        THEN IF b.len = 0 THEN Decoded("none", None) ELSE Decoded("raise", "TypeError")
    ELSE IF b.keys = {} THEN Decoded("none", None)
    ELSE IF "response" \notin b.keys THEN Decoded("raise", "KeyError")
    ELSE IF "user" \notin b.keys THEN Decoded("raise", "KeyError")
    ELSE IF user_de_json(b).st = "raise" THEN user_de_json(b)
    ELSE IF b.keys \ {"response"} = AuthKeys THEN Decoded("obj", None)
    ELSE Decoded("raise", "TypeError")

\* The user object Authentication.user holds: None when the member decoded to None.
DecodedUser(b) == IF user_de_json(b).st = "obj" THEN b.uid ELSE None

CouldNot == "Could not authenticate with the given refresh token"

Unsupported == "Unsupported data returned from authentication endpoint"

AuthError(msg, cause) == Exc("AuthenticationError", msg, cause)

\* The try block of authenticate() applied to the result r of _do_request:
\* [ok, exc] and, when ok, the body whose values are stored.
AuthOutcomeSwapped(r) ==
    IF ~r.ok THEN
        IF r.exc.type = "CancelledError" THEN Raise(r.exc)
        ELSE IF IsPixivError(r.exc.type) THEN Raise(AuthError(Unsupported, r.exc.type))
        ELSE Raise(AuthError(CouldNot, r.exc.type))
    ELSE IF de_json(r.val).st = "none"
        THEN Raise(AuthError(CouldNot, "AuthenticationError"))
    ELSE IF de_json(r.val).st = "raise"
        THEN Raise(AuthError(Unsupported, de_json(r.val).exc))
    ELSE Ret(r.val)

AuthOutcome(r) ==
    IF ~r.ok THEN
        IF r.exc.type = "CancelledError" THEN Raise(r.exc)
        ELSE IF IsPixivError(r.exc.type) THEN Raise(AuthError(CouldNot, r.exc.type))
        ELSE Raise(AuthError(Unsupported, r.exc.type))
    ELSE IF de_json(r.val).st = "none"
        THEN Raise(AuthError(CouldNot, "AuthenticationError"))
    ELSE IF de_json(r.val).st = "raise"
        THEN Raise(AuthError(Unsupported, de_json(r.val).exc))
    ELSE Ret(r.val)

\* The three assignments that end authenticate(): the credentials after storing
\* the decoded body b over the credentials old.
Creds(at, rt, user) == [at |-> at, rt |-> rt, user |-> user]

StoreTokensOnly(old, b) == Creds(b.at, b.rt, old.user)

StoreAuthentication(old, b) == Creds(b.at, b.rt, DecodedUser(b))

(***************************************************************************)
(* Token responses and the network outcomes the model draws from.          *)
(***************************************************************************)
\* A well-formed token response carrying the tokens at, rt and the user uid.
TokenBody(at, rt, uid) ==
    [BaseBody EXCEPT !.keys = AuthKeys \cup {"response"},
                     !.usrT = "obj", !.usrKeys = UserKeys,
                     !.piuT = "obj", !.piuKeys = PiuKeys,
                     !.at = at, !.rt = rt, !.uid = uid]

Token1 == TokenBody("A1", "R1", "U1")

Token2 == TokenBody("A2", "R2", "U2")

\* A token response whose access token is the empty string.
TokenNoAccess == TokenBody("", "R3", "U3")

BadTokenBodies ==
    { Obj({}), Scalar("null", 0), Scalar("list", 0), Scalar("list", 1),
      Scalar("str", 0), Scalar("num", 0), Scalar("invalid", 0),
      Obj({"some_data"}),
      [Token1 EXCEPT !.keys = @ \ {"user"}, !.usrT = "absent", !.usrKeys = {},
                     !.piuT = "absent", !.piuKeys = {}],
      [Token1 EXCEPT !.keys = @ \ {"response"}],
      [Token1 EXCEPT !.keys = @ \ {"scope"}],
      [Token1 EXCEPT !.keys = @ \cup {"extra"}],
      [Token1 EXCEPT !.usrT = "null", !.usrKeys = {}, !.piuT = "absent", !.piuKeys = {}],
      [Token1 EXCEPT !.usrKeys = {}, !.piuT = "absent", !.piuKeys = {}],
      [Token1 EXCEPT !.usrT = "str", !.usrKeys = {}, !.piuT = "absent", !.piuKeys = {}],
      [Token1 EXCEPT !.usrT = "list", !.usrLen = 1, !.usrKeys = {},
                     !.piuT = "absent", !.piuKeys = {}],
      [Token1 EXCEPT !.usrKeys = @ \ {"profile_image_urls"},
                     !.piuT = "absent", !.piuKeys = {}],
      [Token1 EXCEPT !.usrKeys = @ \ {"name"}],
      [Token1 EXCEPT !.piuT = "null", !.piuKeys = {}],
      [Token1 EXCEPT !.piuKeys = {}],
      [Token1 EXCEPT !.piuKeys = @ \ {"px_50x50"}] }

StatusCodes == {100, 199, 200, 204, 299, 300, 302, 400, 401, 403, 404, 500, 502}

\* Every network outcome of the pipeline specification.
PipelineNets ==
    { Resp(c, b) : c \in StatusCodes, b \in ErrorBodies }
        \cup { NetExc(e) : e \in BackendExcTypes }

\* The network outcomes of the sequential facade specification.
SeqNets ==
    { Resp(200, b) : b \in {Token1, Token2, TokenNoAccess} \cup BadTokenBodies }
        \cup { Resp(c, b) : c \in {400, 403, 500},
                            b \in {Obj({}), Scalar("list", 0), ErrBody("obj", DetailKeys, "m")} }
        \cup { NetExc(e) : e \in BackendExcTypes }

\* The network outcomes of the concurrent facade specification.
ConcNets ==
    { Resp(200, Token1), Resp(200, Token2), Resp(200, TokenNoAccess),
      Resp(200, Obj({})), Resp(403, Obj({})), NetExc("HTTPError"),
      NetExc("CancelledError") }

NoNet == [t |-> "none", code |-> 0, body |-> NoBody, exc |-> None]

(***************************************************************************)
(* State.                                                                  *)
(*   pin, pout   one call of the request pipeline: its input and result    *)
(*   access_token, refresh_token, authenticated_user, initialized          *)
(*               the fields of PixivAPI                                    *)
(*   closed      self._session._client.is_closed                           *)
(*   tasks       per task: what it awaits ("idle" when nothing)            *)
(*   wire        the requests put on the network: their number and the     *)
(*               last one's endpoint, Authorization header, refresh token  *)
(*   last        the call that completed last, as its caller sees it       *)
(*   bulk        the running download_many / download_many_to_file call    *)
(*   jobs        its downloads, one per URL                                *)
(*   sinkData    what has been written to each in-memory sink              *)
(*   fs          the file system: directories, and files with their content*)
(*   life        history of the lifecycle calls of a sequential caller:    *)
(*               how often the session's initialize / shutdown were        *)
(*               invoked in a run of initialize() calls followed by        *)
(*               shutdown() calls, and the calls `async with` has made     *)
(*   rp          one request parameter: the raw input, the RequestParameter*)
(*               built from it and what RequestData makes of it            *)
(***************************************************************************)
VARIABLES pin, pout, access_token, refresh_token, authenticated_user,
          initialized, closed, tasks, wire, last, bulk, jobs, sinkData, fs, life,
          rp

vars == <<pin, pout, access_token, refresh_token, authenticated_user,
          initialized, closed, tasks, wire, last, bulk, jobs, sinkData, fs, life,
          rp>>

bulkVars == <<bulk, jobs, sinkData, fs>>

pipeVars == <<pin, pout>>

facadeVars_noRp == <<access_token, refresh_token, authenticated_user,
                     initialized, closed, tasks, wire, last, bulk, jobs, sinkData, fs,
                     life>>

facadeVars == <<access_token, refresh_token, authenticated_user,
                initialized, closed, tasks, wire, last, bulk, jobs, sinkData, fs,
                life, rp>>

Tasks == {"t1", "t2"}

\* The number of requests after which the model puts no more on the network.
MaxCalls == 2

Idle ==
    [pc |-> "idle", op |-> None, arg |-> None, auth |-> FALSE, inv |-> 0, auths |-> 0,
     net |-> NoNet, read |-> 0]

NoLast ==
    [op |-> None, arg |-> None, auth |-> FALSE, ok |-> TRUE, exc |-> NoExc,
     user |-> None, val |-> FALSE, inv |-> 0, auths |-> 0, net |-> NoNet]

\* The constructor's token arguments.
InitTokens == {None, "", "a"}

PipeIdle == [pc |-> "idle", op |-> None, closed |-> FALSE, net |-> NoNet, ipdb |-> "missing"]

\* No request parameter is being built.
NoParam == [pc |-> "none"]

\* Nothing has been called on the new object.
NoLife ==
    [phase |-> "fresh", clean |-> TRUE,
     ninit |-> 0, nshut |-> 0, sinit |-> 0, sshut |-> 0,
     cm |-> <<>>, inside |-> FALSE, body |-> None]

\* PixivAPI.__init__ and HTTPXRequest.__init__: the client is built open.
Construct(at, rt) ==
    /\ access_token = at
    /\ refresh_token = rt
    /\ authenticated_user = None
    /\ initialized = FALSE
    /\ closed = FALSE
    /\ tasks = [t \in Tasks |-> Idle]
    /\ wire = [n |-> 0, op |-> None, auth |-> None, rt |-> None]
    /\ last = NoLast
    /\ life = NoLife

(***************************************************************************)
(* Downloads: URLs, payloads, sinks and the file system.                   *)
(*   A URL is a number; the server streams Payload(u) for it, in chunks.   *)
(*   A sink is <<kind, i>>: "given" a sink the caller supplied, "empty" a  *)
(*   supplied sink whose bool() is False (say a list subclass with a write *)
(*   method, still empty), "fresh" a BytesIO made by download_many,        *)
(*   "fallback" a BytesIO made by download.                                *)
(*   A path is <<directory, file name>>.                                   *)
(***************************************************************************)
\* The number of URLs of a bulk download.
MaxUrls == 2

Urls == 1 .. MaxUrls

\* The chunks the stream of URL u delivers.
Payload(u) == IF u = 1 THEN <<"1a", "1b">> ELSE <<ToString(u)>>

\* URL(url).name
UrlName(u) == "n" \o ToString(u)

\* The URLs of a call: "distinct" with different names, or "twins", different
\* URLs that end in the same name (https://h/1/n1 and https://h/2/n1).
UrlKinds == {"distinct", "twins"}

UrlNameIn(urls, u) == IF urls = "twins" THEN UrlName(1) ELSE UrlName(u)

\* The number of chunks the body of an error response arrives in.
ErrChunks == 2

NoSink == <<"none", 0>>

SinkKinds == {"given", "empty", "fresh", "fallback"}

SinkIds == { <<k, i>> : k \in SinkKinds, i \in 1 .. (MaxUrls + 1) }

\* bool(file) in `file or BytesIO()`: an object is falsy when its __len__ is 0.
SinkTruthy(s) == s # NoSink /\ s[1] # "empty"

\* An optional per-URL argument: absent (None), one value for all, or a sequence.
NoArg == [kind |-> "none", len |-> 0, val |-> None]

OneArg(v) == [kind |-> "one", len |-> 0, val |-> v]

\* A sequence of len elements; val tells how the elements are made.
SeqArg(len, v) == [kind |-> "seq", len |-> len, val |-> v]

\* The lengths tried for the sequence that goes with n URLs.
ArgLens(n) == {n, n + 1} \cup (IF n > 0 THEN {n - 1} ELSE {})

\* The i-th supplied sink: with "empty" the first one is a falsy object.
FileAt(files, i) ==
    IF files.kind = "none" THEN <<"fresh", i>>
    ELSE IF files.val = "empty" /\ i = 1 THEN <<"empty", i>>
    ELSE <<"given", i>>

Dirs == {"."} \cup { "d" \o ToString(i) : i \in 1 .. (MaxUrls + 1) }

Names == { UrlName(u) : u \in Urls } \cup { "f" \o ToString(i) : i \in 1 .. (MaxUrls + 1) }

Paths == Dirs \X Names

\* dir_path of the i-th download: AsyncPath(Path(str(dir_path or "")).absolute())
DirAt(dir_paths, i) ==
    IF dir_paths.kind = "seq" THEN "d" \o ToString(i)
    ELSE IF dir_paths.kind = "one" THEN dir_paths.val
    ELSE "."

\* file_name of the i-th download: the i-th of a sequence, the one str given for
\* all URLs, and with None `file_name or URL(url).name` (url_name).
NameAt(file_names, i, url_name) ==
    IF file_names.kind = "seq" THEN "f" \o ToString(i)
    ELSE IF file_names.kind = "one" THEN file_names.val
    ELSE url_name

\* skip_existing of the i-th download; the elements of a sequence alternate.
SkipAt(skip_existing, i) ==
    IF skip_existing.kind = "seq" THEN i % 2 = 1 ELSE skip_existing.val

\* One download: where it stands, its arguments, the sink it writes to, the
\* chunks written (k), how many of them the file handle has passed on to the
\* file (flushed), the requests it made, the response it got, the chunks taken
\* from the response (read) and its result.
NewJob(fn, url, given, dir, name, skip) ==
    [fn |-> fn, pc |-> "new", url |-> url, given |-> given, sink |-> NoSink,
     dir |-> dir, name |-> name, skip |-> skip,
     k |-> 0, flushed |-> 0, inv |-> 0, opened |-> FALSE, net |-> NoNet, read |-> 0,
     ok |-> TRUE, exc |-> NoExc]

BulkIdle ==
    [pc |-> "idle", op |-> None, n |-> 0, auth |-> FALSE, aexit |-> "unknown",
     files |-> NoArg, dirs |-> NoArg, names |-> NoArg, skips |-> OneArg(FALSE),
     ok |-> TRUE, exc |-> NoExc, yielded |-> <<>>, order |-> <<>>]

\* A file system with the directories ds and the files fexist, holding `data`.
FileSystem(ds, fexist, data) ==
    [dirs |-> ds, exists |-> fexist,
     data |-> [p \in Paths |-> IF p \in fexist THEN data ELSE <<>>]]

\* No bulk download is running; only the working directory exists.
NoBulk ==
    /\ bulk = BulkIdle
    /\ jobs = <<>>
    /\ sinkData = [s \in SinkIds |-> <<>>]
    /\ fs = FileSystem({"."}, {}, <<>>)

(***************************************************************************)
(* The pipeline specification: Init draws one call's inputs, the actions   *)
(* apply request, parsed_request and stream to them.                       *)
(***************************************************************************)
InitPipeline ==
    /\ pin \in { [PipeIdle EXCEPT !.closed = c, !.net = n, !.ipdb = i] :
                    c \in BOOLEAN, n \in PipelineNets, i \in IpdbOutcomes }
    /\ pout = Ret(NoBody)
    /\ Construct(None, None)
    /\ NoBulk
    /\ rp = NoParam

CallRequest ==
    /\ pin.pc = "idle"
    /\ pin' = [pin EXCEPT !.pc = "done", !.op = "request"]
    /\ pout' = request(pin.closed, pin.net, pin.ipdb)
    /\ UNCHANGED facadeVars

CallParsedRequest ==
    /\ pin.pc = "idle"
    /\ pin' = [pin EXCEPT !.pc = "done", !.op = "parsed_request"]
    /\ pout' = parsed_request(pin.closed, pin.net, pin.ipdb)
    /\ UNCHANGED facadeVars

CallStream ==
    /\ pin.pc = "idle"
    /\ pin' = [pin EXCEPT !.pc = "done", !.op = "stream"]
    /\ pout' = stream(pin.closed, pin.net, pin.ipdb)
    /\ UNCHANGED facadeVars

NextPipeline == CallRequest \/ CallParsedRequest \/ CallStream

SpecPipeline == InitPipeline /\ [][NextPipeline]_vars

(***************************************************************************)
(* The facade specification.  A call runs in a task; it is one step from   *)
(* one suspension to the next, since asyncio switches tasks only where a   *)
(* coroutine suspends: authenticate() and _request() suspend once, on the  *)
(* response; download() suspends on the response, then on every chunk of   *)
(* the stream and on its end.                                              *)
(*   tasks[t].pc   "idle", or what the task awaits: "auth" (the token      *)
(*                 response), "req" (an API response), "dl" (the response  *)
(*                 of a stream), "body" (the next chunk of the stream, or  *)
(*                 its end), "aclose" (the closing of the httpx client)    *)
(*   net, read     the response of the stream and the chunks taken from it *)
(*   op, arg, auth the public call the task runs, its refresh-token        *)
(*                 argument, its needs_authentication argument             *)
(*   inv, auths    the requests the call has put on the network and the    *)
(*                 authenticate() invocations it has made                  *)
(***************************************************************************)
Init == \E at \in InitTokens, rt \in InitTokens :
    /\ Construct(at, rt)
    /\ pin = PipeIdle
    /\ pout = Ret(NoBody)
    /\ NoBulk
    /\ rp = NoParam

credVars == <<access_token, refresh_token, authenticated_user>>

\* The refresh-token arguments authenticate() is called with.
ArgTokens == {None, "", "r"}

Awaiting(t, pc, op, arg, auth, auths) ==
    [pc |-> pc, op |-> op, arg |-> arg, auth |-> auth, inv |-> 1, auths |-> auths,
     net |-> NoNet, read |-> 0]

\* The call of task t ends: its caller sees the result r (of Ret / Raise), the
\* returned user and the returned flag.
Done(t, op, arg, auth, r, user, val, inv, auths, net) ==
    /\ last' = [op |-> op, arg |-> arg, auth |-> auth, ok |-> r.ok, exc |-> r.exc,
                user |-> user, val |-> val, inv |-> inv, auths |-> auths, net |-> net]
    /\ tasks' = [tasks EXCEPT ![t] = Idle]

\* authenticate() up to its suspension, called from op with the client closed or
\* not: the guard, then _do_request up to the await of the httpx client.
BeginAuth(t, op, arg, isClosed) ==
    IF MissingToken(arg, refresh_token)
    THEN /\ Done(t, op, arg, FALSE, Raise(Exc("AttributeError", "refresh_token", None)),
                 None, FALSE, 0, 1, NoNet)
         /\ UNCHANGED wire
    ELSE IF isClosed
    THEN /\ Done(t, op, arg, FALSE, AuthOutcome(parsed_request(TRUE, NoNet, "missing")),
                 None, FALSE, 0, 1, NoNet)
         /\ UNCHANGED wire
    ELSE /\ wire.n < MaxCalls
         /\ wire' = [n |-> wire.n + 1, op |-> "auth/token", auth |-> None,
                     rt |-> PyOr(arg, refresh_token)]
         /\ tasks' = [tasks EXCEPT ![t] = Awaiting(t, "auth", op, arg, FALSE, 1)]
         /\ UNCHANGED last

\* PixivAPI.authenticate(refresh_token=arg)
Authenticate(t, arg) ==
    /\ tasks[t].pc = "idle"
    /\ BeginAuth(t, "authenticate", arg, closed)
    /\ UNCHANGED <<credVars, initialized, closed, pipeVars, bulkVars>>

\* authenticate() dropping the stored access token when the token request fails.
FinishAuthForgetsOnFailure(t, net, ipdb) ==
    /\ tasks[t].pc = "auth"
    /\ LET o == AuthOutcome(parsed_request(FALSE, net, ipdb))
           new == StoreAuthentication(
                      Creds(access_token, refresh_token, authenticated_user), o.val)
       IN  /\ IF o.ok
              THEN /\ access_token' = new.at
                   /\ refresh_token' = new.rt
                   /\ authenticated_user' = new.user
              ELSE /\ access_token' = None
                   /\ UNCHANGED <<refresh_token, authenticated_user>>
           /\ initialized' = IF o.ok /\ tasks[t].op \in {"initialize", "aenter"}
                             THEN TRUE ELSE initialized
           /\ Done(t, tasks[t].op, tasks[t].arg, FALSE, [o EXCEPT !.val = NoBody],
                   IF o.ok /\ tasks[t].op = "get_authenticated_user" THEN new.user ELSE None,
                   FALSE, tasks[t].inv, tasks[t].auths, net)
    /\ UNCHANGED <<closed, wire, pipeVars, bulkVars>>

\* The token response arrives: the rest of authenticate() and of its caller
\* (get_authenticated_user returns the cached user, initialize sets _initialized).
FinishAuth(t, net, ipdb) ==
    /\ tasks[t].pc = "auth"
    /\ LET o == AuthOutcome(parsed_request(FALSE, net, ipdb))
           new == StoreAuthentication(
                      Creds(access_token, refresh_token, authenticated_user), o.val)
       IN  /\ IF o.ok
              THEN /\ access_token' = new.at
                   /\ refresh_token' = new.rt
                   /\ authenticated_user' = new.user
              ELSE UNCHANGED credVars
           /\ initialized' = IF o.ok /\ tasks[t].op \in {"initialize", "aenter"}
                             THEN TRUE ELSE initialized
           /\ Done(t, tasks[t].op, tasks[t].arg, FALSE, [o EXCEPT !.val = NoBody],
                   IF o.ok /\ tasks[t].op = "get_authenticated_user" THEN new.user ELSE None,
                   FALSE, tasks[t].inv, tasks[t].auths, net)
    /\ UNCHANGED <<closed, wire, pipeVars, bulkVars>>

\* get_authenticated_user() without the look at the cached user.
GetAuthenticatedUserNoCache(t) ==
    /\ tasks[t].pc = "idle"
    /\ IF ~is_authenticated(access_token, refresh_token)
       THEN /\ Done(t, "get_authenticated_user", None, FALSE,
                    Raise(Exc("NotAuthenticated",
                              "You need to be authenticated for this request", None)),
                    None, FALSE, 0, 0, NoNet)
            /\ UNCHANGED wire
       ELSE BeginAuth(t, "get_authenticated_user", None, closed)
    /\ UNCHANGED <<credVars, initialized, closed, pipeVars, bulkVars>>

\* PixivAPI.get_authenticated_user()
GetAuthenticatedUser(t) ==
    /\ tasks[t].pc = "idle"
    /\ IF authenticated_user # None
       THEN /\ Done(t, "get_authenticated_user", None, FALSE, Ret(NoBody),
                    authenticated_user, FALSE, 0, 0, NoNet)
            /\ UNCHANGED wire
       ELSE IF ~is_authenticated(access_token, refresh_token)
       THEN /\ Done(t, "get_authenticated_user", None, FALSE,
                    Raise(Exc("NotAuthenticated",
                              "You need to be authenticated for this request", None)),
                    None, FALSE, 0, 0, NoNet)
            /\ UNCHANGED wire
       ELSE BeginAuth(t, "get_authenticated_user", None, closed)
    /\ UNCHANGED <<credVars, initialized, closed, pipeVars, bulkVars>>

\* Reading the property PixivAPI.is_authenticated
IsAuthenticated(t) ==
    /\ tasks[t].pc = "idle"
    /\ Done(t, "is_authenticated", None, FALSE, Ret(NoBody), None,
            is_authenticated(access_token, refresh_token), 0, 0, NoNet)
    /\ UNCHANGED <<credVars, initialized, closed, wire, pipeVars, bulkVars>>

\* The headers of _request() and download(): needs_authentication decides.
CallHeaders(needs_authentication) ==
    IF needs_authentication THEN authentication_headers(access_token, refresh_token)
    ELSE [ok |-> TRUE, auth |-> None]

\* _request() / download() up to the suspension; send names the pipeline call.
BeginCall(t, op, pc, needs_authentication, closedResult) ==
    LET h == CallHeaders(needs_authentication)
    IN  IF ~h.ok
        THEN /\ Done(t, op, None, needs_authentication,
                     Raise(Exc("NotAuthenticated",
                               "You need to be authenticated for this request", None)),
                     None, FALSE, 0, 0, NoNet)
             /\ UNCHANGED wire
        ELSE IF closed
        THEN /\ Done(t, op, None, needs_authentication, [closedResult EXCEPT !.val = NoBody],
                     None, FALSE, 0, 0, NoNet)
             /\ UNCHANGED wire
        ELSE /\ wire.n < MaxCalls
             /\ wire' = [n |-> wire.n + 1, op |-> op, auth |-> h.auth, rt |-> None]
             /\ tasks' = [tasks EXCEPT
                             ![t] = Awaiting(t, pc, op, None, needs_authentication, 0)]
             /\ UNCHANGED last

\* PixivAPI._request(..., needs_authentication) (through _get, _post, illust, ...)
ApiRequest(t, needs_authentication) ==
    /\ tasks[t].pc = "idle"
    /\ BeginCall(t, "request", "req", needs_authentication,
                 parsed_request(TRUE, NoNet, "missing"))
    /\ UNCHANGED <<credVars, initialized, closed, pipeVars, bulkVars>>

FinishRequest(t, net, ipdb) ==
    /\ tasks[t].pc = "req"
    /\ Done(t, "request", None, tasks[t].auth,
            [parsed_request(FALSE, net, ipdb) EXCEPT !.val = NoBody],
            None, FALSE, tasks[t].inv, 0, net)
    /\ UNCHANGED <<credVars, initialized, closed, wire, pipeVars, bulkVars>>

\* PixivAPI.download(url, needs_authentication=...)
Download(t, needs_authentication) ==
    /\ tasks[t].pc = "idle"
    /\ BeginCall(t, "download", "dl", needs_authentication, stream(TRUE, NoNet, "missing"))
    /\ UNCHANGED <<credVars, initialized, closed, pipeVars, bulkVars>>

\* The number of chunks the stream of a response delivers: the payload of URL 2
\* with a 2xx status, the error body with any other.
Chunks(net) == IF IsSuccess(net.code) THEN Len(Payload(2)) ELSE ErrChunks

\* The outcomes of the stream request of download(): the body of a 2xx response
\* is the file, of which only the chunks count.
DownloadNets ==
    { Resp(200, NoBody), Resp(403, Obj({})), NetExc("HTTPError"), NetExc("CancelledError") }

\* The stream request of download() ends: an exception of the backend leaves
\* download() through stream(); a response leaves the task awaiting the first
\* chunk of its body, in `async for data in content` with a 2xx status and in
\* _parse_error with any other.
DownloadResponse(t, net) ==
    /\ tasks[t].pc = "dl"
    /\ IF net.t = "resp"
       THEN /\ tasks' = [tasks EXCEPT ![t].pc = "body", ![t].net = net]
            /\ UNCHANGED last
       ELSE Done(t, "download", None, tasks[t].auth,
                 [stream(FALSE, net, "missing") EXCEPT !.val = NoBody],
                 None, FALSE, tasks[t].inv, 0, net)
    /\ UNCHANGED <<credVars, initialized, closed, wire, pipeVars, bulkVars>>

\* The next chunk of the stream arrives and is consumed (written to the sink, or
\* collected by _parse_error); the task awaits the one after it.
DownloadChunk(t) ==
    /\ tasks[t].pc = "body"
    /\ tasks[t].read < Chunks(tasks[t].net)
    /\ tasks' = [tasks EXCEPT ![t].read = @ + 1]
    /\ UNCHANGED <<last, credVars, initialized, closed, wire, pipeVars, bulkVars>>

\* The stream ends: download() returns its sink, or _parse_error builds the
\* error of the status and stream() raises it.
FinishDownload(t, ipdb) ==
    /\ tasks[t].pc = "body"
    /\ tasks[t].read = Chunks(tasks[t].net)
    /\ Done(t, "download", None, tasks[t].auth,
            [stream(FALSE, tasks[t].net, ipdb) EXCEPT !.val = NoBody],
            None, FALSE, tasks[t].inv, 0, tasks[t].net)
    /\ UNCHANGED <<credVars, initialized, closed, wire, pipeVars, bulkVars>>

\* PixivAPI.initialize(): HTTPXRequest.initialize() builds a new client when the
\* old one is closed; authenticate() runs when is_authenticated.
\* initialize() without `if self.is_authenticated: await self.authenticate()`.
BeginInitializeNoAuth(t, op) ==
    IF initialized
    THEN /\ Done(t, op, None, FALSE, Ret(NoBody), None, FALSE, 0, 0, NoNet)
         /\ UNCHANGED <<initialized, closed, wire>>
    ELSE /\ closed' = FALSE
         /\ initialized' = TRUE
         /\ Done(t, op, None, FALSE, Ret(NoBody), None, FALSE, 0, 0, NoNet)
         /\ UNCHANGED wire

BeginInitialize(t, op) ==
    IF initialized
    THEN /\ Done(t, op, None, FALSE, Ret(NoBody), None, FALSE, 0, 0, NoNet)
         /\ UNCHANGED <<initialized, closed, wire>>
    ELSE /\ closed' = FALSE
         /\ IF is_authenticated(access_token, refresh_token)
            THEN /\ BeginAuth(t, op, None, FALSE)
                 /\ UNCHANGED initialized
            ELSE /\ initialized' = TRUE
                 /\ Done(t, op, None, FALSE, Ret(NoBody), None, FALSE, 0, 0, NoNet)
                 /\ UNCHANGED wire

Initialize(t) ==
    /\ tasks[t].pc = "idle"
    /\ BeginInitialize(t, "initialize")
    /\ UNCHANGED <<credVars, pipeVars, bulkVars>>

\* PixivAPI.shutdown(): HTTPXRequest.shutdown() returns at once on a closed
\* client; else the client is marked closed and its closing is awaited.
BeginShutdown(t, op) ==
    IF ~initialized
    THEN /\ Done(t, op, None, FALSE, Ret(NoBody), None, FALSE, 0, 0, NoNet)
         /\ UNCHANGED <<initialized, closed>>
    ELSE IF closed
    THEN /\ initialized' = FALSE
         /\ Done(t, op, None, FALSE, Ret(NoBody), None, FALSE, 0, 0, NoNet)
         /\ UNCHANGED closed
    ELSE /\ closed' = TRUE
         /\ tasks' = [tasks EXCEPT ![t] = [Idle EXCEPT !.pc = "aclose", !.op = op]]
         /\ UNCHANGED <<initialized, last>>

Shutdown(t) ==
    /\ tasks[t].pc = "idle"
    /\ BeginShutdown(t, "shutdown")
    /\ UNCHANGED <<credVars, wire, pipeVars, bulkVars>>

FinishShutdown(t) ==
    /\ tasks[t].pc = "aclose"
    /\ initialized' = FALSE
    /\ Done(t, tasks[t].op, None, FALSE, Ret(NoBody), None, FALSE, 0, 0, NoNet)
    /\ UNCHANGED <<credVars, closed, wire, pipeVars, bulkVars>>

\* PixivAPI.__aenter__: initialize(); an Exception it raises is re-raised after
\* shutdown(), which returns at once since _initialized is still False.
AEnter(t) ==
    /\ tasks[t].pc = "idle"
    /\ BeginInitialize(t, "aenter")
    /\ UNCHANGED <<credVars, pipeVars, bulkVars>>

\* PixivAPI.__aexit__(exc_type, ...): shutdown(), whatever the body did.
AExit(t, exc_type) ==
    /\ tasks[t].pc = "idle"
    /\ BeginShutdown(t, "aexit")
    /\ UNCHANGED <<credVars, wire, pipeVars, bulkVars>>

\* Concurrent tasks on one PixivAPI.
Next ==
    /\ \E t \in Tasks :
        \/ \E arg \in ArgTokens : Authenticate(t, arg)
        \/ \E net \in ConcNets : FinishAuth(t, net, "missing")
        \/ GetAuthenticatedUser(t)
        \/ IsAuthenticated(t)
        \/ \E na \in BOOLEAN : ApiRequest(t, na)
        \/ \E net \in ConcNets : FinishRequest(t, net, "missing")
        \/ \E na \in BOOLEAN : Download(t, na)
        \/ \E net \in DownloadNets : DownloadResponse(t, net)
        \/ DownloadChunk(t)
        \/ FinishDownload(t, "missing")
        \/ Initialize(t)
        \/ Shutdown(t)
        \/ FinishShutdown(t)
    /\ UNCHANGED <<life, rp>>

Spec == Init /\ [][Next]_vars

\* What the installation does at the ipdb call matters for status 400 only.
IpdbFor(net) ==
    IF net.t = "resp" /\ net.code = 400 THEN IpdbOutcomes ELSE {"missing"}

\* One task calling the authentication and lifecycle operations one after the
\* other, against every network outcome.
NextSeq ==
    /\ \/ \E arg \in ArgTokens : Authenticate("t1", arg)
       \/ \E net \in SeqNets : \E ipdb \in IpdbFor(net) : FinishAuth("t1", net, ipdb)
       \/ GetAuthenticatedUser("t1")
       \/ IsAuthenticated("t1")
       \/ Initialize("t1")
       \/ Shutdown("t1")
       \/ FinishShutdown("t1")
    /\ UNCHANGED <<life, rp>>

SpecSeq == Init /\ [][NextSeq]_vars

(***************************************************************************)
(* The history kept in `life` for a sequential caller.                     *)
(*   phase   "fresh": nothing called; "inits": only initialize() calls so  *)
(*           far; "shuts": those followed by shutdown() calls; "other":    *)
(*           any other history (the counts are dropped)                    *)
(*   clean   every initialize() of the run has returned normally           *)
(*   ninit, nshut   initialize() / shutdown() calls of the run (2 = more   *)
(*           than one)                                                     *)
(*   sinit, sshut   invocations of the session's initialize / shutdown     *)
(*   cm      the calls the latest `async with` has made on the object      *)
(*   inside  the caller is in the body of `async with`                     *)
(*   body    the exception type the body handed to __aexit__               *)
(***************************************************************************)
Bump(c) == IF c < 2 THEN c + 1 ELSE c

LifeOther(l) ==
    [l EXCEPT !.phase = "other", !.clean = TRUE,
              !.ninit = 0, !.nshut = 0, !.sinit = 0, !.sshut = 0]

\* `except Exception`: every exception but a cancellation.
IsException(type) == type # "CancelledError"

\* The calls __aenter__ makes on the object, r being the result of initialize().
aenter_calls_no_cleanup(r) == <<"initialize">>

aenter_calls(r) ==
    IF ~r.ok /\ IsException(r.exc.type) THEN <<"initialize", "shutdown">>
    ELSE <<"initialize">>

\* initialize() is called (by op) while _initialized is wasInit.
LifeInitCalled(l, wasInit) ==
    IF l.phase = "other" THEN l
    ELSE [l EXCEPT !.ninit = Bump(@), !.sinit = IF wasInit THEN @ ELSE Bump(@)]

\* The initialize() called by op has ended with the result r.
LifeInitDone(l, op, r) ==
    LET a == IF l.phase \in {"fresh", "inits"} /\ (r.ok \/ op = "initialize")
             THEN [l EXCEPT !.phase = "inits", !.clean = @ /\ r.ok] ELSE LifeOther(l)
    IN  IF op = "aenter" THEN [a EXCEPT !.cm = aenter_calls(r), !.inside = r.ok] ELSE a

\* shutdown() is called (by op) while _initialized is wasInit.
LifeShutCalled(l, op, wasInit, exc_type) ==
    LET a == IF l.phase = "other" THEN l
             ELSE [l EXCEPT !.nshut = Bump(@), !.sshut = IF wasInit THEN Bump(@) ELSE @]
    IN  IF op = "aexit"
        THEN [a EXCEPT !.cm = Append(@, "shutdown"), !.inside = FALSE, !.body = exc_type]
        ELSE a

LifeShutDone(l) ==
    IF l.phase \in {"inits", "shuts"} THEN [l EXCEPT !.phase = "shuts"] ELSE LifeOther(l)

\* The exception types a body of `async with` may end with.
BodyOutcomes == {None, "Exception", "CancelledError"}

\* The network outcomes of the lifecycle specification.
LifeNets ==
    { Resp(200, Token1), Resp(200, TokenNoAccess), Resp(200, Obj({})),
      Resp(400, Obj({})), Resp(403, ErrBody("obj", DetailKeys, "m")) }
        \cup { NetExc(e) : e \in BackendExcTypes }

\* One task calling authenticate(), initialize(), shutdown() and `async with`
\* one after the other, with the history of the calls kept in `life`.
NextLife ==
    /\ \/ /\ \E arg \in ArgTokens : Authenticate("t1", arg)
          /\ UNCHANGED life
       \/ /\ \E net \in LifeNets : \E ipdb \in IpdbFor(net) : FinishAuth("t1", net, ipdb)
          /\ life' = IF tasks["t1"].op \in {"initialize", "aenter"}
                     THEN LifeInitDone(life, tasks["t1"].op, last')
                     ELSE life
       \/ /\ Initialize("t1")
          /\ life' = IF tasks'["t1"].pc = "idle"
                     THEN LifeInitDone(LifeInitCalled(life, initialized), "initialize", last')
                     ELSE LifeInitCalled(life, initialized)
       \/ /\ ~life.inside
          /\ AEnter("t1")
          /\ life' = IF tasks'["t1"].pc = "idle"
                     THEN LifeInitDone(LifeInitCalled(life, initialized), "aenter", last')
                     ELSE LifeInitCalled(life, initialized)
       \/ /\ Shutdown("t1")
          /\ life' = IF tasks'["t1"].pc = "idle"
                     THEN LifeShutDone(LifeShutCalled(life, "shutdown", initialized, None))
                     ELSE LifeShutCalled(life, "shutdown", initialized, None)
       \/ /\ life.inside
          /\ \E e \in BodyOutcomes :
                /\ AExit("t1", e)
                /\ life' = IF tasks'["t1"].pc = "idle"
                           THEN LifeShutDone(LifeShutCalled(life, "aexit", initialized, e))
                           ELSE LifeShutCalled(life, "aexit", initialized, e)
       \/ /\ FinishShutdown("t1")
          /\ life' = LifeShutDone(life)
    /\ UNCHANGED rp

SpecLife == Init /\ [][NextLife]_vars

(***************************************************************************)
(* Bulk downloads.  download_many / download_many_to_file make one         *)
(* coroutine per URL and iterate asyncio.as_completed over them, which      *)
(* schedules them all as tasks.  A job is one such task:                   *)
(*   pc   "new" scheduled, not yet run; "mkdir" awaiting mkdir();          *)
(*        "check" awaiting is_file(); "open" awaiting open("wb");          *)
(*        "stream" awaiting the response; "write" awaiting the next chunk  *)
(*        of the stream or its end; "awrite" awaiting file.write(chunk);   *)
(*        "drain" awaiting the next chunk of an error body or its end;     *)
(*        "close" awaiting the closing of the file, download() having      *)
(*        returned (or raised, when the exit of the file's context closes  *)
(*        the file then too); "done"                                       *)
(* bulk.order lists the jobs in the order they finished, bulk.yielded the  *)
(* results the generator has yielded.                                      *)
(***************************************************************************)
\* The file system a bulk download starts on: the working directory holds the
\* file n1, the destination the first URL has by default, with the content
\* "old"; no other destination and no other directory exists.
InitFileSystems == { FileSystem({"."}, {<<".", "n1">>}, <<"old">>) }

InitBulk ==
    /\ \E at \in {None, "a"} : Construct(at, None)
    /\ pin = PipeIdle
    /\ pout = Ret(NoBody)
    /\ bulk = BulkIdle
    /\ jobs = <<>>
    /\ sinkData = [s \in SinkIds |-> <<>>]
    /\ fs \in InitFileSystems
    /\ rp = NoParam

restVars == <<credVars, initialized, closed, tasks, last, pipeVars, life, rp>>

\* The call's arguments, as the generator holds them.
Called(op, n, auth, files, dirs, names, skips) ==
    [BulkIdle EXCEPT !.op = op, !.n = n, !.auth = auth,
                     !.files = files, !.dirs = dirs, !.names = names, !.skips = skips]

Running(b) == [b EXCEPT !.pc = "run"]

Failed(b, e) == [b EXCEPT !.pc = "ended", !.ok = FALSE, !.exc = e]

\* download_many(urls, files, needs_authentication) with n URLs, up to the
\* first await of the generator.
CallDownloadMany(n, urls, files, needs_authentication) ==
    /\ bulk.pc = "idle"
    /\ LET b == Called("download_many", n, needs_authentication, files,
                        NoArg, NoArg, OneArg(FALSE))
       IN
       IF files.kind = "seq" /\ files.len # n
       THEN /\ bulk' = Failed(b, Exc("ValueError", "files count and image count differ", None))
            /\ UNCHANGED jobs
       ELSE /\ bulk' = Running(b)
            /\ jobs' = [i \in 1 .. n |->
                          NewJob("download", i, FileAt(files, i), ".",
                                 UrlNameIn(urls, i), FALSE)]
    /\ UNCHANGED <<sinkData, fs, wire, restVars>>

\* The length checks of download_many_to_file without the one of skip_existing.
ToFileArgErrorNoSkips(n, dir_paths, file_names, skip_existing) ==
    IF dir_paths.kind = "seq" /\ dir_paths.len # n
        THEN Exc("ValueError", "dir_path count and image count differ", None)
    ELSE IF file_names.kind = "seq" /\ file_names.len # n
        THEN Exc("ValueError", "file_name count and image count differ", None)
    ELSE NoExc

\* The three length checks of download_many_to_file, in the code's order.
ToFileArgError(n, dir_paths, file_names, skip_existing) ==
    IF dir_paths.kind = "seq" /\ dir_paths.len # n
        THEN Exc("ValueError", "dir_path count and image count differ", None)
    ELSE IF file_names.kind = "seq" /\ file_names.len # n
        THEN Exc("ValueError", "file_name count and image count differ", None)
    ELSE IF skip_existing.kind = "seq" /\ skip_existing.len # n
        THEN Exc("ValueError", "skip_existing count and image count differ", None)
    ELSE NoExc

\* download_many_to_file(urls, dir_paths, file_names, skip_existing, ...)
CallDownloadManyToFile(n, urls, dir_paths, file_names, skip_existing, needs_auth) ==
    /\ bulk.pc = "idle"
    /\ LET e == ToFileArgError(n, dir_paths, file_names, skip_existing)
           b == Called("download_many_to_file", n, needs_auth, NoArg,
                       dir_paths, file_names, skip_existing)
       IN  IF e # NoExc
           THEN /\ bulk' = Failed(b, e)
                /\ UNCHANGED jobs
           ELSE /\ bulk' = Running(b)
                /\ jobs' = [i \in 1 .. n |->
                              NewJob("download_to_file", i, NoSink, DirAt(dir_paths, i),
                                     NameAt(file_names, i, UrlNameIn(urls, i)),
                                     SkipAt(skip_existing, i))]
    /\ UNCHANGED <<sinkData, fs, wire, restVars>>

JobPath(j) == <<j.dir, j.name>>

\* What the job returns: download the sink it wrote to, download_to_file the path.
JobResult(j) == IF j.fn = "download" THEN j.sink ELSE JobPath(j)

\* The job ends (returns or raises): as_completed queues it as finished.
Finish(i, j, r) ==
    /\ jobs' = [jobs EXCEPT ![i] = [j EXCEPT !.pc = "done", !.ok = r.ok, !.exc = r.exc]]
    /\ bulk' = [bulk EXCEPT !.order = Append(@, i)]

\* What the installed aiopath does when the body of `async with
\* file_path.open(...)` raises: "closes" the exit awaits the closing of the file
\* as after a normal end of the body, "leaves" the exception leaves at once with
\* the file open.  Either is the same for every download of a run; it shows
\* with the first exception (bulk.aexit is "unknown" until then).
AExitKinds(b) == IF b.aexit = "unknown" THEN {"closes", "leaves"} ELSE {b.aexit}

\* download() ends with r (it returns its sink or raises).  A download() task
\* is finished; in download_to_file the exit of `async with file_path.open(...)`
\* awaits the closing of the file after a return, and after an exception does
\* what the installed aiopath does.
Leave(i, j, r) ==
    IF j.fn = "download" THEN Finish(i, j, r)
    ELSE IF r.ok
    THEN /\ jobs' = [jobs EXCEPT ![i] = [j EXCEPT !.pc = "close", !.ok = r.ok, !.exc = r.exc]]
         /\ UNCHANGED bulk
    ELSE \E c \in AExitKinds(bulk) :
            IF c = "closes"
            THEN /\ jobs' = [jobs EXCEPT
                                ![i] = [j EXCEPT !.pc = "close", !.ok = r.ok, !.exc = r.exc]]
                 /\ bulk' = [bulk EXCEPT !.aexit = c]
            ELSE /\ jobs' = [jobs EXCEPT
                                ![i] = [j EXCEPT !.pc = "done", !.ok = r.ok, !.exc = r.exc]]
                 /\ bulk' = [bulk EXCEPT !.aexit = c, !.order = Append(@, i)]

\* download() up to the await of the stream, for the job record j (whose sink
\* is already chosen).
EnterDownload(i, j) ==
    LET h == CallHeaders(bulk.auth)
    IN  IF ~h.ok
        THEN /\ Leave(i, j, Raise(Exc("NotAuthenticated",
                                      "You need to be authenticated for this request", None)))
             /\ UNCHANGED wire
        ELSE IF closed
        THEN /\ Leave(i, j, stream(TRUE, NoNet, "missing"))
             /\ UNCHANGED wire
        ELSE /\ wire' = [n |-> wire.n + 1, op |-> "download", auth |-> h.auth, rt |-> None]
             /\ jobs' = [jobs EXCEPT ![i] = [j EXCEPT !.pc = "stream", !.inv = 1]]
             /\ UNCHANGED bulk

\* `file = file or BytesIO()`
SinkOrBytesIO(given, i) == IF SinkTruthy(given) THEN given ELSE <<"fallback", i>>

\* The first step of a download() task.
JobStartDownload(i) ==
    /\ i \in DOMAIN jobs
    /\ jobs[i].fn = "download" /\ jobs[i].pc = "new"
    /\ EnterDownload(i, [jobs[i] EXCEPT !.sink = SinkOrBytesIO(jobs[i].given, i)])
    /\ UNCHANGED <<sinkData, fs, restVars>>

\* The first step of a download_to_file() task: dir_path and file_name are
\* worked out, then the task awaits `dir_path.mkdir(parents=True, exist_ok=True)`.
JobStartToFile(i) ==
    /\ i \in DOMAIN jobs
    /\ jobs[i].fn = "download_to_file" /\ jobs[i].pc = "new"
    /\ jobs' = [jobs EXCEPT ![i].pc = "mkdir"]
    /\ UNCHANGED <<bulk, sinkData, fs, wire, restVars>>

\* Every task has run its first step: the loop runs what is ready in FIFO order,
\* and the tasks were made ready when they were created.
AllStarted == \A i \in DOMAIN jobs : jobs[i].pc # "new"

\* mkdir completes: the directory exists; the task goes on to the await of
\* is_file() when skip_existing, of open("wb") otherwise.
JobMkdir(i) ==
    /\ i \in DOMAIN jobs /\ AllStarted
    /\ jobs[i].pc = "mkdir"
    /\ fs' = [fs EXCEPT !.dirs = @ \cup {jobs[i].dir}]
    /\ jobs' = [jobs EXCEPT ![i].pc = IF jobs[i].skip THEN "check" ELSE "open"]
    /\ UNCHANGED <<bulk, sinkData, wire, restVars>>

\* download_to_file without the look at the destination.
JobCheckAlwaysOpen(i) ==
    /\ i \in DOMAIN jobs /\ AllStarted
    /\ jobs[i].pc = "check"
    /\ jobs' = [jobs EXCEPT ![i].pc = "open"]
    /\ UNCHANGED <<bulk, sinkData, fs, wire, restVars>>

\* `if skip_existing and await file_path.is_file(): return file_path`
JobCheck(i) ==
    /\ i \in DOMAIN jobs /\ AllStarted
    /\ jobs[i].pc = "check"
    /\ IF JobPath(jobs[i]) \in fs.exists
       THEN Finish(i, jobs[i], Ret(NoBody))
       ELSE /\ jobs' = [jobs EXCEPT ![i].pc = "open"]
            /\ UNCHANGED bulk
    /\ UNCHANGED <<sinkData, fs, wire, restVars>>

\* `async with file_path.open("wb") as file:` creates or truncates the file;
\* then download() runs to its await of the response, or raises, which leaves
\* the task awaiting the closing of the file.
JobOpen(i) ==
    /\ i \in DOMAIN jobs /\ AllStarted
    /\ jobs[i].pc = "open"
    /\ fs' = [fs EXCEPT !.exists = @ \cup {JobPath(jobs[i])},
                        !.data[JobPath(jobs[i])] = <<>>]
    /\ EnterDownload(i, [jobs[i] EXCEPT !.opened = TRUE])
    /\ UNCHANGED <<sinkData, restVars>>

\* The outcomes of a download's stream request.
BulkNets == { Resp(200, NoBody), Resp(403, Obj({})), NetExc("HTTPError") }

\* The stream request ends: a 2xx status hands the byte iterator to download(),
\* any other status goes on to _parse_error, an exception of the backend leaves
\* download() through stream().
JobRespond(i, net) ==
    /\ i \in DOMAIN jobs /\ AllStarted
    /\ jobs[i].pc = "stream"
    /\ IF net.t = "resp"
       THEN /\ jobs' = [jobs EXCEPT ![i].net = net,
                                    ![i].pc = IF IsSuccess(net.code) THEN "write" ELSE "drain"]
            /\ UNCHANGED bulk
       ELSE Leave(i, [jobs[i] EXCEPT !.net = net], stream(FALSE, net, "missing"))
    /\ UNCHANGED <<sinkData, fs, wire, restVars>>

\* _parse_error raising the status error without reading the stream.
JobDrainClassifiesFirst(i) ==
    /\ i \in DOMAIN jobs /\ AllStarted
    /\ jobs[i].pc = "drain"
    /\ Leave(i, jobs[i], stream(FALSE, jobs[i].net, "missing"))
    /\ UNCHANGED <<sinkData, fs, wire, restVars>>

\* _parse_error: `b"".join([item async for item in content])` takes the next
\* chunk of the error body; at the end of the stream the error is built and
\* stream() raises it.
JobDrain(i) ==
    /\ i \in DOMAIN jobs /\ AllStarted
    /\ jobs[i].pc = "drain"
    /\ IF jobs[i].read < ErrChunks
       THEN /\ jobs' = [jobs EXCEPT ![i].read = @ + 1]
            /\ UNCHANGED bulk
       ELSE Leave(i, jobs[i], stream(FALSE, jobs[i].net, "missing"))
    /\ UNCHANGED <<sinkData, fs, wire, restVars>>

\* One chunk goes to the file from a handle whose position is after pos - 1 chunks:
\* a hole left by another handle's truncation reads as zeros.
WriteAt(data, pos, chunk) ==
    [x \in 1 .. (IF pos > Len(data) THEN pos ELSE Len(data)) |->
        IF x = pos THEN chunk ELSE IF x <= Len(data) THEN data[x] ELSE "zeros"]

\* `async for data in content:` the next chunk is taken from the response.  An
\* in-memory sink is written at once (`file.write(data)`); with the handle of
\* download_to_file the task awaits `file.write(data)`.
JobWrite(i) ==
    /\ i \in DOMAIN jobs /\ AllStarted
    /\ jobs[i].pc = "write"
    /\ jobs[i].read < Len(Payload(jobs[i].url))
    /\ LET j == jobs[i]
           chunk == Payload(j.url)[j.read + 1]
       IN  IF j.fn = "download"
           THEN /\ sinkData' = [sinkData EXCEPT ![j.sink] = Append(@, chunk)]
                /\ jobs' = [jobs EXCEPT ![i].read = @ + 1, ![i].k = @ + 1]
           ELSE /\ jobs' = [jobs EXCEPT ![i].read = @ + 1, ![i].pc = "awrite"]
                /\ UNCHANGED sinkData
    /\ UNCHANGED <<bulk, fs, wire, restVars>>

\* The handle passes on to the file the chunks it holds back: those after the
\* first j.flushed up to the upto-th, at the place they have in the handle.
RECURSIVE Flush(_, _, _)
Flush(data, pos, chunks) ==
    IF chunks = <<>> THEN data
    ELSE Flush(WriteAt(data, pos, Head(chunks)), pos + 1, Tail(chunks))

Flushed(data, j, upto) ==
    Flush(data, j.flushed + 1, SubSeq(Payload(j.url), j.flushed + 1, upto))

\* `await file.write(data)` completes: the handle has taken the chunk, the task
\* awaits the next one.  The handle of open("wb") is the installed aiopath's:
\* it writes through, or it keeps the bytes in a buffer that it empties on
\* closing and when a chunk does not fit in.  After the write the file has
\* nothing more than before (the chunk fitted in), or the chunks written
\* earlier (the buffer was emptied and keeps the new chunk), or everything
\* written through the handle so far.
JobFileWrite(i) ==
    /\ i \in DOMAIN jobs /\ AllStarted
    /\ jobs[i].pc = "awrite"
    /\ LET j == jobs[i]
       IN  \E f \in {j.flushed, j.k, j.k + 1} :
              /\ fs' = [fs EXCEPT !.data[JobPath(j)] = Flushed(@, j, f)]
              /\ jobs' = [jobs EXCEPT ![i].k = @ + 1, ![i].flushed = f, ![i].pc = "write"]
    /\ UNCHANGED <<bulk, sinkData, wire, restVars>>

\* The stream ends: download() leaves retrieve() and returns its sink.  In
\* download_to_file the closing of the file begins; it empties the handle's
\* buffer at once or by the time it completes.
JobEndOfStream(i) ==
    /\ i \in DOMAIN jobs /\ AllStarted
    /\ jobs[i].pc = "write"
    /\ jobs[i].read = Len(Payload(jobs[i].url))
    /\ LET j == jobs[i]
       IN  IF j.fn = "download"
           THEN /\ Leave(i, j, Ret(NoBody))
                /\ UNCHANGED fs
           ELSE \E f \in {j.flushed, j.k} :
                   /\ fs' = [fs EXCEPT !.data[JobPath(j)] = Flushed(@, j, f)]
                   /\ Leave(i, [j EXCEPT !.flushed = f], Ret(NoBody))
    /\ UNCHANGED <<sinkData, wire, restVars>>

\* The closing of the file completes: all that was written through the handle
\* is in the file; download_to_file returns file_path, or the exception of
\* download() leaves it.
JobClose(i) ==
    /\ i \in DOMAIN jobs /\ AllStarted
    /\ jobs[i].pc = "close"
    /\ LET j == jobs[i]
       IN  /\ fs' = [fs EXCEPT !.data[JobPath(j)] = Flushed(@, j, j.k)]
           /\ Finish(i, [j EXCEPT !.flushed = j.k], [ok |-> j.ok, exc |-> j.exc])
    /\ UNCHANGED <<sinkData, wire, restVars>>

\* The job whose result is the k-th the iteration delivers, 0 when none is
\* ready: as_completed delivers in the order of finishing.
in_input_order(order, k) == IF k \in { order[x] : x \in DOMAIN order } THEN k ELSE 0

as_completed(order, k) == IF k <= Len(order) THEN order[k] ELSE 0

\* `for task in as_completed(tasks): yield await task`: the next result is
\* yielded, or the exception of the job leaves the generator.
BulkYield ==
    /\ bulk.pc = "run" /\ AllStarted
    /\ LET i == as_completed(bulk.order, Len(bulk.yielded) + 1)
       IN  /\ i # 0
           /\ bulk' = IF jobs[i].ok
                      THEN [bulk EXCEPT !.yielded = Append(@, JobResult(jobs[i]))]
                      ELSE [bulk EXCEPT !.pc = "ended", !.ok = FALSE, !.exc = jobs[i].exc]
    /\ UNCHANGED <<jobs, sinkData, fs, wire, restVars>>

\* Every result has been yielded: the generator is exhausted.
BulkEnd ==
    /\ bulk.pc = "run"
    /\ Len(bulk.yielded) = bulk.n
    /\ bulk' = [bulk EXCEPT !.pc = "ended"]
    /\ UNCHANGED <<jobs, sinkData, fs, wire, restVars>>

FilesArgs(n) ==
    {NoArg} \cup { SeqArg(k, v) : k \in ArgLens(n), v \in {"given", "empty"} }

DirArgs(n) == {NoArg} \cup { SeqArg(k, "d") : k \in ArgLens(n) }

NameArgs(n) == {NoArg, OneArg("f1")} \cup { SeqArg(k, "f") : k \in ArgLens(n) }

SkipArgs(n) == {OneArg(TRUE), OneArg(FALSE)} \cup { SeqArg(k, TRUE) : k \in ArgLens(n) }

\* download_many is called with either value of needs_authentication and URLs
\* of different names (it makes no use of the names); download_many_to_file is
\* called with the default needs_authentication=True, on an object with or
\* without an access token.
NextBulk ==
    \/ \E n \in 0 .. MaxUrls, na \in BOOLEAN :
          \E files \in FilesArgs(n) : CallDownloadMany(n, "distinct", files, na)
    \/ \E n \in 0 .. MaxUrls, urls \in UrlKinds :
          \E d \in DirArgs(n), f \in NameArgs(n), sk \in SkipArgs(n) :
              CallDownloadManyToFile(n, urls, d, f, sk, TRUE)
    \/ \E i \in 1 .. MaxUrls :
          \/ JobStartDownload(i)
          \/ JobStartToFile(i)
          \/ JobMkdir(i)
          \/ JobCheck(i)
          \/ JobOpen(i)
          \/ \E net \in BulkNets : JobRespond(i, net)
          \/ JobDrain(i)
          \/ JobWrite(i)
          \/ JobFileWrite(i)
          \/ JobEndOfStream(i)
          \/ JobClose(i)
    \/ BulkYield
    \/ BulkEnd

SpecBulk == InitBulk /\ [][NextBulk]_vars

(***************************************************************************)
(* Request parameters: RequestParameter and RequestData.                   *)
(*   A raw element is [t, n]:                                              *)
(*     "none" None; "str" the string StrTexts[n]; "int" the number n;      *)
(*     "bool" False (0) / True (1); "date" the datetime n half-seconds     *)
(*     after the epoch; "obj" a PixivObject whose to_dict() is {"k": n};   *)
(*     "file" the InputFile number n; "bytes", "path", "handle" raw bytes, *)
(*     a pathlib.Path and an open file that are not wrapped in InputFile.  *)
(*   A raw input is [seq, items]: a sequence (list or tuple) of elements,  *)
(*   or one element (items has length 1).  Python values have the same     *)
(*   form, with the extra element type "dict" for the dict {"k": n}.       *)
(*   A text is a sequence of characters.                                   *)
(***************************************************************************)
\* The longest sequence passed as one parameter.
MaxSeq == 3

El(t, n) == [t |-> t, n |-> n]

NoneEl == El("none", 0)

StrTexts == << <<>>, <<"a", "b">>, <<"7">>, <<"t", "r", "u", "e">> >>

Scalar1(e) == [seq |-> FALSE, items |-> <<e>>]

List(es) == [seq |-> TRUE, items |-> es]

FileTypes == {"file", "bytes", "path", "handle"}

RawElements ==
    {NoneEl} \cup { El("str", n) : n \in 1 .. Len(StrTexts) }
        \cup { El("int", n) : n \in {0, 7} }
        \cup { El("bool", n) : n \in {0, 1} }
        \cup { El("date", n) : n \in {2, 3} }
        \cup { El("obj", 1) }
        \cup { El("file", n) : n \in {1, 2} }
        \cup { El("bytes", 1), El("path", 1), El("handle", 1) }

SeqsUpTo(S, k) == UNION { [1 .. n -> S] : n \in 0 .. k }

RawInputs ==
    { Scalar1(e) : e \in RawElements } \cup { List(es) : es \in SeqsUpTo(RawElements, MaxSeq) }

\* aiopixiv._utils.datetime.to_timestamp: the integer Unix timestamp of a date.
to_timestamp(halves) == halves \div 2

\* RequestParameter._value_and_input_files_from_input: <<value, files>>.
value_and_input_files_from_input(e) ==
    CASE e.t = "date" -> <<El("int", to_timestamp(e.n)), <<>>>>
      [] e.t = "file" -> <<NoneEl, <<e.n>>>>
      [] e.t = "obj"  -> <<El("dict", e.n), <<>>>>
      [] OTHER        -> <<e, <<>>>>

RECURSIVE ParamValues(_)
ParamValues(es) ==
    IF es = <<>> THEN <<>>
    ELSE LET v == value_and_input_files_from_input(Head(es))[1]
         IN  (IF v # NoneEl THEN <<v>> ELSE <<>>) \o ParamValues(Tail(es))

RECURSIVE InputFilesOf(_)
InputFilesOf(es) ==
    IF es = <<>> THEN <<>>
    ELSE value_and_input_files_from_input(Head(es))[2] \o InputFilesOf(Tail(es))

\* RequestParameter.from_input.  input_files = <<>> stands for None (the code
\* never stores an empty list).
from_input(key, input) ==
    IF input.seq
    THEN [name |-> key, value |-> List(ParamValues(input.items)),
          input_files |-> InputFilesOf(input.items)]
    ELSE LET r == value_and_input_files_from_input(input.items[1])
         IN  [name |-> key, value |-> Scalar1(r[1]), input_files |-> r[2]]

\* json.dumps of one value that is no list: its text, or <<"TypeError">>.
NotSerializable == <<"TypeError">>

Digit(n) == ToString(n)

Quote == "\""

dumps1(e) ==
    CASE e.t = "none" -> <<"n", "u", "l", "l">>
      [] e.t = "str"  -> <<Quote>> \o StrTexts[e.n] \o <<Quote>>
      [] e.t = "int"  -> <<Digit(e.n)>>
      [] e.t = "bool" -> IF e.n = 1 THEN <<"t", "r", "u", "e">>
                         ELSE <<"f", "a", "l", "s", "e">>
      [] e.t = "dict" -> <<"{", Quote, "k", Quote, ":", " ", Digit(e.n), "}">>
      [] OTHER        -> NotSerializable

RECURSIVE JoinItems(_)
JoinItems(es) ==
    IF es = <<>> THEN <<>>
    ELSE IF Len(es) = 1 THEN dumps1(es[1])
    ELSE dumps1(es[1]) \o <<",", " ">> \o JoinItems(Tail(es))

\* json.dumps(value)
dumps(v) ==
    IF ~v.seq THEN dumps1(v.items[1])
    ELSE IF \E i \in 1 .. Len(v.items) : dumps1(v.items[i]) = NotSerializable
    THEN NotSerializable
    ELSE <<"[">> \o JoinItems(v.items) \o <<"]">>

\* RequestParameter.json_value: [absent, raises, text].
JsonValue(absent, raises, text) == [absent |-> absent, raises |-> raises, text |-> text]

json_value(p) ==
    IF ~p.value.seq /\ p.value.items[1].t = "str"
    THEN JsonValue(FALSE, FALSE, StrTexts[p.value.items[1].n])
    ELSE IF ~p.value.seq /\ p.value.items[1].t = "none" THEN JsonValue(TRUE, FALSE, <<>>)
    ELSE IF dumps(p.value) = NotSerializable THEN JsonValue(FALSE, TRUE, <<>>)
    ELSE JsonValue(FALSE, FALSE, dumps(p.value))

\* json.loads of the text of one value that is no list; El("error", 0) is
\* JSONDecodeError.
Digits == { Digit(n) : n \in 0 .. 9 }

DecodeError == El("error", 0)

loads1(txt) ==
    IF txt = <<"n", "u", "l", "l">> THEN NoneEl
    ELSE IF txt = <<"t", "r", "u", "e">> THEN El("bool", 1)
    ELSE IF txt = <<"f", "a", "l", "s", "e">> THEN El("bool", 0)
    ELSE IF Len(txt) = 1 /\ txt[1] \in Digits
    THEN El("int", CHOOSE n \in 0 .. 9 : Digit(n) = txt[1])
    ELSE IF /\ Len(txt) >= 2 /\ txt[1] = Quote /\ txt[Len(txt)] = Quote
            /\ \E n \in 1 .. Len(StrTexts) : StrTexts[n] = SubSeq(txt, 2, Len(txt) - 1)
    THEN El("str", CHOOSE n \in 1 .. Len(StrTexts) :
                       StrTexts[n] = SubSeq(txt, 2, Len(txt) - 1))
    ELSE IF /\ Len(txt) = 8
            /\ SubSeq(txt, 1, 6) = <<"{", Quote, "k", Quote, ":", " ">>
            /\ txt[7] \in Digits /\ txt[8] = "}"
    THEN El("dict", CHOOSE n \in 0 .. 9 : Digit(n) = txt[7])
    ELSE DecodeError

\* The texts of the items of an array's inside, split at the commas.
RECURSIVE SplitItems(_, _)
SplitItems(txt, cur) ==
    IF txt = <<>> THEN <<cur>>
    ELSE IF Head(txt) = "," THEN <<cur>> \o SplitItems(Tail(txt), <<>>)
    ELSE IF Head(txt) = " " /\ cur = <<>> THEN SplitItems(Tail(txt), cur)
    ELSE SplitItems(Tail(txt), Append(cur, Head(txt)))

\* json.loads(text): [ok, value].
loads(txt) ==
    IF Len(txt) >= 2 /\ txt[1] = "[" /\ txt[Len(txt)] = "]"
    THEN LET inner == SubSeq(txt, 2, Len(txt) - 1)
             parts == IF inner = <<>> THEN <<>> ELSE SplitItems(inner, <<>>)
             items == [i \in 1 .. Len(parts) |-> loads1(parts[i])]
         IN  [ok |-> \A i \in 1 .. Len(items) : items[i] # DecodeError,
              value |-> List(items)]
    ELSE [ok |-> loads1(txt) # DecodeError, value |-> Scalar1(loads1(txt))]

\* RequestParameter.multipart_data: None (here the empty sequence) without
\* files; else a dict built with the one key self.name, which keeps the last
\* file's field tuple.  A dict is a sequence of <<key, file>> entries.
param_multipart_data(p) ==
    IF p.input_files = <<>> THEN <<>>
    ELSE <<  <<p.name, p.input_files[Len(p.input_files)]>>  >>

\* dict[key] = value, kv being <<key, value>>: a key the dict holds keeps its
\* place and takes the new value, a new key goes to the end.
DictSet(dict, kv) ==
    IF \E i \in 1 .. Len(dict) : dict[i][1] = kv[1]
    THEN [i \in 1 .. Len(dict) |-> IF dict[i][1] = kv[1] THEN kv ELSE dict[i]]
    ELSE Append(dict, kv)

\* dict.update(more)
RECURSIVE DictUpdate(_, _)
DictUpdate(dict, more) ==
    IF more = <<>> THEN dict
    ELSE DictUpdate(DictSet(dict, Head(more)), Tail(more))

\* RequestData.multipart_data over the parameters ps: the dict is updated with
\* each parameter's files in turn.
RECURSIVE multipart_data(_)
multipart_data(ps) ==
    IF ps = <<>> THEN <<>>
    ELSE DictUpdate(multipart_data(SubSeq(ps, 1, Len(ps) - 1)),
                    param_multipart_data(ps[Len(ps)]))

\* RequestData.json_parameters over the parameters ps: the dict comprehension
\* {param.name: param.json_value ...} over the parameters whose json_value is
\* not None, a name taking the value of the last parameter that has it;
\* [raises, dict].
RECURSIVE JsonEntries(_)
JsonEntries(ps) ==
    IF ps = <<>> THEN <<>>
    ELSE LET front == JsonEntries(SubSeq(ps, 1, Len(ps) - 1))
             p == ps[Len(ps)]
         IN  IF json_value(p).absent THEN front
             ELSE DictSet(front, <<p.name, json_value(p).text>>)

json_parameters(ps) ==
    [raises |-> \E i \in 1 .. Len(ps) : json_value(ps[i]).raises,
     dict   |-> JsonEntries(ps)]

(***************************************************************************)
(* The request-parameter specification: Init draws a raw input, the        *)
(* actions build the RequestParameter and the RequestData's two views.     *)
(***************************************************************************)
InitParams ==
    /\ Construct(None, None)
    /\ pin = PipeIdle
    /\ pout = Ret(NoBody)
    /\ NoBulk
    /\ rp \in { [pc |-> "raw", input |-> i] : i \in RawInputs }

\* RequestData([RequestParameter.from_input("p", input)])
BuildParameter ==
    /\ rp.pc = "raw"
    /\ rp' = [pc |-> "built", input |-> rp.input, param |-> from_input("p", rp.input)]
    /\ UNCHANGED <<facadeVars_noRp, pipeVars>>

\* RequestData.json_parameters and RequestData.multipart_data()
SerializeParameter ==
    /\ rp.pc = "built"
    /\ rp' = [pc |-> "sent", input |-> rp.input, param |-> rp.param,
              json |-> json_parameters(<<rp.param>>),
              multipart |-> multipart_data(<<rp.param>>)]
    /\ UNCHANGED <<facadeVars_noRp, pipeVars>>

NextParams ==
    \/ BuildParameter
    \/ SerializeParameter

SpecParams == InitParams /\ [][NextParams]_vars

(***************************************************************************)
(* Claims about the request pipeline (checked under SpecPipeline).         *)
(***************************************************************************)
\* The transport answered the finished call with a response.
Answered == pin.pc = "done" /\ ~pin.closed /\ pin.net.t = "resp"

\* The classes _parse_error derives from the status code.
StatusErrorTypes == {"Forbidden", "NotFound", "BadRequest", "NetworkError"}

\* The HTTP-status-derived error of a raised exception: the exception itself, or
\* the cause of a structured API error.
StatusDerived(e) == IF e.type \in {"APIErrorDetail", "APIError"} THEN e.cause ELSE e.type

\* C1: request()/parsed_request(): a 2xx response returns the body and raises
\* nothing; a non-2xx response never returns a payload and its status-derived
\* error is Forbidden for 403, NotFound for 404, NetworkError for 502 and a
\* NetworkError for every other code.
C1_StatusClassification ==
    (Answered /\ pin.op \in {"request", "parsed_request"}) =>
        IF IsSuccess(pin.net.code)
        THEN (pin.op = "request" \/ pin.net.body.top # "invalid")
                => (pout.ok /\ pout.val = pin.net.body)
        ELSE /\ ~pout.ok
             /\ pin.net.code = 403 => StatusDerived(pout.exc) = "Forbidden"
             /\ pin.net.code = 404 => StatusDerived(pout.exc) = "NotFound"
             /\ pin.net.code = 502 => StatusDerived(pout.exc) = "NetworkError"
             /\ pin.net.code \notin {403, 404, 502} => IsNetworkError(StatusDerived(pout.exc))

\* The body carries an "error" object of the detailed or of the generic shape.
HasKnownEnvelope(b) ==
    /\ b.top = "obj"
    /\ "error" \in b.keys
    /\ b.errT = "obj"
    /\ b.errKeys \in {DetailKeys, GenericKeys}

\* C2: request()/stream() on a non-2xx response: a body with an error object of
\* the detailed or generic shape raises the decoded APIErrorDetail/APIError with
\* the HTTP-status error as its cause; any other body raises exactly the
\* HTTP-status error and no structured error.
C2_StructuredErrorChained ==
    (Answered /\ pin.op \in {"request", "stream"} /\ ~IsSuccess(pin.net.code)) =>
        /\ ~pout.ok
        /\ IF HasKnownEnvelope(pin.net.body)
           THEN /\ pout.exc.type = (IF pin.net.body.errKeys = DetailKeys
                                    THEN "APIErrorDetail" ELSE "APIError")
                /\ pout.exc.cause \in StatusErrorTypes
           ELSE /\ pout.exc.type \in StatusErrorTypes
                /\ pout.exc.cause = None

\* C3: every failure of request(), parsed_request() or stream() caused by the
\* transport or the response, cancellation apart, reaches the caller as a
\* PixivError (or subclass), and no failure becomes a returned value.
C3_OnlyPixivErrorsEscape ==
    (pin.pc = "done" /\ ~(pin.net.t = "exc" /\ pin.net.exc = "CancelledError")) =>
        /\ ~pout.ok => IsPixivError(pout.exc.type)
        /\ pout.ok => (Answered /\ IsSuccess(pin.net.code))

(***************************************************************************)
(* Claims about the facade.                                                *)
(***************************************************************************)
\* The bodies of the 2xx responses the specifications draw from.
SuccessBodies ==
    { n.body : n \in { m \in ConcNets \cup SeqNets : m.t = "resp" /\ IsSuccess(m.code) } }

\* C4: the stored access token, refresh token and cached user are replaced
\* together: in every state the three are the constructor's (no user yet) or
\* are all three the values of one and the same token response.
C4_CredentialsFromOneResponse ==
    \/ /\ authenticated_user = None
       /\ access_token \in InitTokens
       /\ refresh_token \in InitTokens
    \/ \E b \in SuccessBodies :
          /\ access_token = b.at
          /\ refresh_token = b.rt
          /\ authenticated_user = DecodedUser(b)

\* An authenticate() has stored the second response while another
\* authenticate() of the other task is still awaiting its answer.
C4_Witness ==
    /\ last.op = "authenticate" /\ last.ok /\ last.net.body = Token2
    /\ access_token = "A2" /\ refresh_token = "R2" /\ authenticated_user = "U2"
    /\ wire.n = 2
    /\ \E t \in Tasks : tasks[t].pc = "auth"

\* C5: authenticate() with no (or an empty) refresh-token argument while no
\* refresh token is stored raises AttributeError, which is no PixivError, puts
\* nothing on the network and leaves the stored credentials as they were.
C5_MissingTokenRaisesLocally ==
    [][ \A t \in Tasks, arg \in ArgTokens :
          (Authenticate(t, arg) /\ ~Truthy(arg) /\ ~Truthy(refresh_token)) =>
              /\ ~last'.ok
              /\ last'.exc.type = "AttributeError"
              /\ ~IsPixivError(last'.exc.type)
              /\ last'.inv = 0
              /\ wire' = wire
              /\ tasks'[t].pc = "idle"
              /\ UNCHANGED credVars ]_vars

C5_Witness ==
    /\ last.op = "authenticate" /\ last.arg = "" /\ last.exc.type = "AttributeError"
    /\ refresh_token = "" /\ wire.n = 0

\* A finished call ran authenticate() and got a 2xx response with a JSON body.
AuthAnswered ==
    /\ last.auths = 1
    /\ last.net.t = "resp"
    /\ IsSuccess(last.net.code)
    /\ last.net.body.top # "invalid"

\* The "user" member has the shape of an AuthenticatedUser.
WellFormedUser(b) ==
    /\ b.usrT = "obj" /\ b.usrKeys = UserKeys
    /\ b.piuT = "obj" /\ b.piuKeys = PiuKeys

\* The body has the fields of a token response, each of the right shape.
WellFormedToken(b) ==
    /\ b.top = "obj"
    /\ AuthKeys \subseteq b.keys
    /\ b.keys \subseteq AuthKeys \cup {"response"}
    /\ WellFormedUser(b)

\* C6 as claimed: a structurally invalid 2xx token response (fields missing,
\* unknown or wrong-shaped, or no object) makes authenticate() raise
\* AuthenticationError with the "Unsupported data" message.
C6_InvalidDataIsUnsupported ==
    (AuthAnswered /\ ~WellFormedToken(last.net.body)) =>
        /\ ~last.ok
        /\ last.exc.type = "AuthenticationError"
        /\ last.exc.msg = Unsupported

\* null, {} or []: the values for which de_json returns None.
EmptyValue(t, len, keys) ==
    \/ t = "null"
    \/ t = "list" /\ len = 0
    \/ t = "obj" /\ keys = {}

\* The shapes of "user" that decode without an exception: empty ones (null, {}
\* or []), and a user with every field whose profile_image_urls is null or
\* complete.  An empty profile_image_urls ({}) is not among them: its decoding
\* calls the constructor without arguments.
AcceptedUser(b) ==
    \/ EmptyValue(b.usrT, b.usrLen, b.usrKeys)
    \/ /\ b.usrT = "obj" /\ b.usrKeys = UserKeys
       /\ b.piuT = "null" \/ (b.piuT = "obj" /\ b.piuKeys = PiuKeys)

\* C6 amended: on a 2xx token response with a JSON body, an empty body (null,
\* {} or []) raises "Could not authenticate"; a body that is an object with
\* "response" and exactly the six token fields, whose user is empty (null, {}
\* or []) or has every field with a profile_image_urls that is null or has
\* every field, is accepted; every other body, a user with an empty
\* profile_image_urls among them, raises "Unsupported data", never "Could not
\* authenticate".
C6_UnsupportedUnlessEmpty ==
    AuthAnswered =>
        LET b == last.net.body
        IN  IF EmptyValue(b.top, b.len, b.keys)
            THEN ~last.ok /\ last.exc = AuthError(CouldNot, "AuthenticationError")
            ELSE IF b.top = "obj" /\ b.keys = AuthKeys \cup {"response"} /\ AcceptedUser(b)
            THEN last.ok
            ELSE /\ ~last.ok
                 /\ last.exc.type = "AuthenticationError"
                 /\ last.exc.msg = Unsupported
                 /\ last.exc.msg # CouldNot

\* authenticate() answered by a token response without "user" ended with the
\* "Unsupported data" message.
C6_Witness ==
    /\ AuthAnswered
    /\ last.op = "authenticate"
    /\ "user" \notin last.net.body.keys /\ "access_token" \in last.net.body.keys
    /\ last.exc.msg = Unsupported

\* The request pipeline fails on this network outcome with a PixivError: the
\* backend raised, or the status is an error status other than 400 with a body
\* _parse_error can read.
FailsWithPixivError(net) ==
    \/ net.t = "exc" /\ net.exc \in {"HTTPError", "Exception"}
    \/ /\ net.t = "resp" /\ ~IsSuccess(net.code) /\ net.code # 400
       /\ net.body.top \in {"obj", "invalid"}
       /\ net.body.errT \in {"absent", "obj"}
    \/ net.t = "resp" /\ IsSuccess(net.code) /\ net.body.top = "invalid"

\* C7: when the token-refresh request fails with a PixivError of the request
\* pipeline, authenticate() raises AuthenticationError with the "Could not
\* authenticate with the given refresh token" message, chained from that error
\* (NetworkError for a backend network failure).
C7_TransportFailureIsCouldNot ==
    (last.auths = 1 /\ FailsWithPixivError(last.net)) =>
        /\ ~last.ok
        /\ last.exc.type = "AuthenticationError"
        /\ last.exc.msg = CouldNot
        /\ IsPixivError(last.exc.cause)
        /\ last.exc.cause # "AuthenticationError"
        /\ last.net = NetExc("HTTPError") => last.exc.cause = "NetworkError"

C7_Witness ==
    /\ last.op = "authenticate"
    /\ last.net = NetExc("HTTPError")
    /\ last.exc = AuthError(CouldNot, "NetworkError")

\* C8: get_authenticated_user() returns a cached user without authenticating or
\* touching the network; without a cached user it raises NotAuthenticated with
\* no network call when a token is missing, and else runs authenticate() exactly
\* once and returns the user that call cached.
C8_GetAuthenticatedUser ==
    [][ \A t \in Tasks :
          /\ GetAuthenticatedUser(t) =>
                IF authenticated_user # None
                THEN /\ last'.ok /\ last'.user = authenticated_user
                     /\ last'.auths = 0 /\ last'.inv = 0
                     /\ wire' = wire /\ tasks'[t].pc = "idle"
                ELSE IF ~(Truthy(access_token) /\ Truthy(refresh_token))
                THEN /\ ~last'.ok /\ last'.exc.type = "NotAuthenticated"
                     /\ last'.auths = 0 /\ last'.inv = 0
                     /\ wire' = wire /\ tasks'[t].pc = "idle"
                ELSE IF tasks'[t].pc = "idle" THEN last'.auths = 1
                     ELSE tasks'[t].pc = "auth" /\ tasks'[t].auths = 1
          /\ (tasks[t].pc = "auth" /\ tasks[t].op = "get_authenticated_user"
                /\ tasks'[t].pc = "idle") =>
                /\ last'.auths = 1
                /\ last'.ok => /\ last'.user = authenticated_user'
                               /\ last'.user = DecodedUser(last'.net.body) ]_vars

\* get_authenticated_user() returned the cached user of an earlier response
\* without a call of its own.
C8_Witness ==
    /\ last.op = "get_authenticated_user" /\ last.ok
    /\ last.user = "U1" /\ last.auths = 0 /\ wire.n = 1

\* C9: a request or download with needs_authentication=True carries
\* Authorization: Bearer <the access token stored when the call is made>, and
\* with no access token stored raises NotAuthenticated without invoking the
\* transport; with needs_authentication=False it carries no Authorization.
C9_BearerHeader ==
    [][ \A t \in Tasks :
          /\ ( /\ tasks[t].pc = "idle" /\ tasks'[t].pc \in {"req", "dl"} ) =>
                /\ tasks'[t].auth => Truthy(access_token)
                /\ wire'.n = wire.n + 1
                /\ wire'.op = tasks'[t].op
                /\ wire'.auth = IF tasks'[t].auth THEN "Bearer " \o access_token ELSE None
          /\ ( /\ tasks' = tasks /\ tasks[t].pc = "idle"
               /\ last' # last /\ last'.op \in {"request", "download"}
               /\ last'.auth /\ ~Truthy(access_token) ) =>
                /\ ~last'.ok /\ last'.exc.type = "NotAuthenticated"
                /\ last'.inv = 0 /\ wire' = wire ]_vars

\* A request went out with the token a re-authentication had stored.
C9_Witness ==
    /\ wire.op \in {"request", "download"}
    /\ wire.auth = "Bearer A1"
    /\ access_token = "A1"

IsNonEmptyString(x) == x # None /\ Len(x) > 0

\* C10: in every reachable state is_authenticated is true exactly when the
\* stored access token and the stored refresh token are both non-empty
\* strings, whatever the cached user; reading it puts nothing on the network.
C10_IsAuthenticatedIffBothTokens ==
    /\ is_authenticated(access_token, refresh_token)
          <=> (IsNonEmptyString(access_token) /\ IsNonEmptyString(refresh_token))
    /\ last.op = "is_authenticated" =>
          /\ last.inv = 0
          /\ last.val \in BOOLEAN

\* is_authenticated was read as false while a user is cached and only the
\* refresh token is non-empty.
C10_Witness ==
    /\ last.op = "is_authenticated" /\ last.val = FALSE
    /\ authenticated_user = "U3" /\ access_token = "" /\ refresh_token = "R3"

(***************************************************************************)
(* Further claims about the request pipeline (checked under SpecPipeline). *)
(***************************************************************************)
\* C11: a response with status 400 makes request() and stream() raise
\* BadRequest, itself or as the cause of a decoded structured API error,
\* whatever the body.
C11_Status400IsBadRequest ==
    (Answered /\ pin.op \in {"request", "stream"} /\ pin.net.code = 400) =>
        /\ ~pout.ok
        /\ StatusDerived(pout.exc) = "BadRequest"

\* The body fails to parse as the claim has it: malformed UTF-8 or malformed JSON.
NotValidJson(b) == ~b.utf8 \/ b.top = "invalid"

InvalidServerResponse == Exc("PixivError", "Invalid server response", "JSONDecodeError")

\* C12 as claimed: a body that is not valid JSON makes a parsed request fail
\* with PixivError("Invalid server response") for every status code.
C12_InvalidJsonAnyStatus ==
    (Answered /\ pin.op = "parsed_request" /\ NotValidJson(pin.net.body)) =>
        /\ ~pout.ok
        /\ pout.exc.type = "PixivError"
        /\ pout.exc.msg = "Invalid server response"

\* C12 amended: on a 2xx response a parsed request fails with
\* PixivError("Invalid server response") exactly when the bytes, decoded with
\* replacement of malformed UTF-8, are not JSON (malformed UTF-8 that leaves
\* JSON is returned parsed); on a non-2xx response a body that is not valid
\* JSON gives no message and the call never fails with "Invalid server
\* response": it raises Forbidden("") at 403, NotFound("") at 404, the
\* NetworkError of the status at any other status but 400, and at 400 what the
\* debugger call before BadRequest("") leaves: ModuleNotFoundError where ipdb
\* is not installed, BdbQuit when the debugger is quit, BadRequest("") when it
\* is continued.
C12_InvalidJsonOn2xxOnly ==
    (Answered /\ pin.op = "parsed_request" /\ NotValidJson(pin.net.body)) =>
        LET code == pin.net.code
        IN  IF IsSuccess(code)
            THEN IF pin.net.body.top = "invalid"
                 THEN ~pout.ok /\ pout.exc = InvalidServerResponse
                 ELSE pout.ok /\ pout.val = pin.net.body
            ELSE /\ ~pout.ok
                 /\ pout.exc.msg # "Invalid server response"
                 /\ pout.exc =
                       CASE code = 403 -> Exc("Forbidden", "", None)
                         [] code = 404 -> Exc("NotFound", "", None)
                         [] code = 502 ->
                              Exc("NetworkError", "Bad Gateway - Invalid response from server", None)
                         [] code = 400 /\ pin.ipdb = "missing" ->
                              Exc("ModuleNotFoundError", "No module named 'ipdb'", None)
                         [] code = 400 /\ pin.ipdb = "quit" -> Exc("BdbQuit", "", None)
                         [] code = 400 /\ pin.ipdb = "continue" -> Exc("BadRequest", "", None)
                         [] OTHER ->
                              Exc("NetworkError", "NetworkError (" \o ToString(code) \o ")", None)

\* A parsed request met 403 with a body that is no JSON and raised Forbidden
\* with the empty message.
C12_Witness ==
    /\ Answered /\ pin.op = "parsed_request"
    /\ pin.net.code = 403 /\ pin.net.body.top = "invalid"
    /\ pout.exc = Exc("Forbidden", "", None)

(***************************************************************************)
(* Further claims about the facade.                                        *)
(***************************************************************************)
\* C13: a cancellation that arrives while request() (under _request),
\* stream() (under download) or authenticate() awaits the transport reaches the
\* caller as that CancelledError: not wrapped in a PixivError, NetworkError or
\* AuthenticationError, not turned into a return.
C13_CancellationPropagates ==
    last.net = NetExc("CancelledError") =>
        /\ last.op \in {"authenticate", "get_authenticated_user", "initialize",
                        "request", "download"}
        /\ ~last.ok
        /\ last.exc = Exc("CancelledError", "", None)
        /\ ~IsPixivError(last.exc.type)

\* authenticate() was cancelled while awaiting the token response.
C13_Witness ==
    /\ last.op = "authenticate"
    /\ last.net = NetExc("CancelledError")
    /\ last.exc.type = "CancelledError"
    /\ last.inv = 1

(***************************************************************************)
(* Claims about downloads (checked under SpecBulk).                        *)
(***************************************************************************)
\* C14: a download_many over n URLs whose downloads all succeeded has yielded
\* exactly n results: every sink of the call (the supplied ones, or the fresh
\* buffers when files was omitted) exactly once, the sink of URL i holding
\* exactly the chunks streamed for URL i.
C14_EachSinkOnceWithItsPayload ==
    (bulk.op = "download_many" /\ bulk.pc = "ended" /\ bulk.ok) =>
        /\ Len(bulk.yielded) = bulk.n
        /\ \A i \in 1 .. bulk.n :
              /\ Cardinality({ k \in DOMAIN bulk.yielded :
                                  bulk.yielded[k] = FileAt(bulk.files, i) }) = 1
              /\ sinkData[FileAt(bulk.files, i)] = Payload(i)

\* C15: every download is a scheduled task that has run its first step before
\* the first result is yielded, and the k-th result yielded is the result of
\* the k-th download that finished.
C15_YieldedInCompletionOrder ==
    /\ Len(bulk.yielded) >= 1 => (Len(jobs) = bulk.n /\ AllStarted)
    /\ Len(bulk.yielded) <= Len(bulk.order)
    /\ \A k \in DOMAIN bulk.yielded :
          /\ jobs[bulk.order[k]].pc = "done"
          /\ bulk.yielded[k] = JobResult(jobs[bulk.order[k]])
    /\ \A k, l \in DOMAIN bulk.order : bulk.order[k] = bulk.order[l] => k = l

\* Both files of a download_many_to_file were yielded, the second URL's first.
C15_Witness ==
    /\ bulk.op = "download_many_to_file"
    /\ bulk.order = <<2, 1>>
    /\ bulk.yielded = <<JobPath(jobs[2]), JobPath(jobs[1])>>
    /\ jobs[1].opened /\ jobs[2].opened

\* A per-URL sequence of the call has a length other than the number of URLs.
WrongLength(a, n) == a.kind = "seq" /\ a.len # n

Mismatched(b) ==
    \/ WrongLength(b.files, b.n)
    \/ WrongLength(b.dirs, b.n)
    \/ WrongLength(b.names, b.n)
    \/ WrongLength(b.skips, b.n)

\* C16: download_many / download_many_to_file called with a files, dir_paths,
\* file_names or skip_existing sequence of another length than urls raises
\* ValueError with no download started: no request made, no directory created,
\* no file opened.
C16_MismatchRaisesBeforeAnyDownload ==
    (bulk.pc # "idle" /\ Mismatched(bulk)) =>
        /\ bulk.pc = "ended" /\ ~bulk.ok
        /\ bulk.exc.type = "ValueError"
        /\ bulk.yielded = <<>>
        /\ jobs = <<>>
        /\ wire.n = 0
        /\ fs \in InitFileSystems
        /\ \A s \in SinkIds : sinkData[s] = <<>>

\* download_many_to_file with three skip_existing flags for two URLs has raised.
C16_Witness ==
    /\ bulk.op = "download_many_to_file" /\ bulk.n = 2
    /\ bulk.dirs.kind = "none" /\ bulk.names.kind = "none"
    /\ bulk.skips = SeqArg(3, TRUE)
    /\ bulk.exc.type = "ValueError"

\* C17: a step of a download_to_file with skip_existing=True whose destination
\* exists as a file changes nothing on the file system and makes no request,
\* and the call returns the destination path without having opened the file.
C17_SkipExistingTouchesNothing ==
    [][ \A i \in 1 .. MaxUrls :
          ( /\ i \in DOMAIN jobs
            /\ jobs[i].fn = "download_to_file" /\ jobs[i].skip
            /\ jobs[i].pc \in {"new", "mkdir", "check"}
            /\ JobPath(jobs[i]) \in fs.exists
            /\ jobs' # jobs /\ jobs'[i] # jobs[i] ) =>
              /\ fs' = fs
              /\ wire' = wire
              /\ jobs'[i].pc \in {"mkdir", "check", "done"}
              /\ jobs[i].pc = "check" =>
                    /\ jobs'[i].pc = "done" /\ jobs'[i].ok
                    /\ ~jobs'[i].opened /\ jobs'[i].inv = 0
                    /\ JobResult(jobs'[i]) = JobPath(jobs[i]) ]_vars

\* The path of an existing file was yielded by a download that made no request
\* and the file still holds "old".
C17_Witness ==
    /\ Len(jobs) >= 1
    /\ jobs[1].fn = "download_to_file" /\ jobs[1].skip
    /\ jobs[1].pc = "done" /\ jobs[1].ok /\ ~jobs[1].opened /\ jobs[1].inv = 0
    /\ fs.data[JobPath(jobs[1])] = <<"old">>
    /\ bulk.yielded = <<JobPath(jobs[1])>>

(***************************************************************************)
(* Claims about the lifecycle (checked under SpecLife).                    *)
(***************************************************************************)
\* C18: a run of initialize() calls followed by shutdown() calls invokes the
\* session's initialize and the session's shutdown exactly once each.
C18_EachSessionCallOnce ==
    (life.phase = "shuts" /\ tasks["t1"].pc = "idle") =>
        (life.sinit = 1 /\ life.sshut = 1)

\* C19: an initialize() issued while the object is not initialized calls
\* authenticate() exactly when both stored tokens are non-empty at that moment;
\* an initialize() issued while it is initialized calls nothing.
C19_InitializeAuthenticatesIffTokens ==
    [][ Initialize("t1") =>
          LET authenticates ==
                  \/ tasks'["t1"].pc = "auth" /\ tasks'["t1"].auths = 1
                  \/ tasks'["t1"].pc = "idle" /\ last'.auths = 1
          IN  IF initialized
              THEN ~authenticates /\ wire' = wire /\ UNCHANGED credVars
              ELSE authenticates <=>
                      (IsNonEmptyString(access_token) /\ IsNonEmptyString(refresh_token))
      ]_vars

\* A second initialize(), after a shutdown() and with tokens stored by an
\* earlier authenticate(), has authenticated.
C19_Witness ==
    /\ last.op = "initialize" /\ last.ok /\ last.auths = 1
    /\ life.phase = "other"
    /\ wire.n = 2 /\ wire.op = "auth/token"
    /\ initialized

\* C20 as claimed: when __aenter__ ends with an exception raised by
\* initialize(), shutdown() was invoked after initialize().
C20_FailedEntryShutsDown ==
    (last.op = "aenter" /\ ~last.ok) => life.cm = <<"initialize", "shutdown">>

\* The exception authenticate() raises for the network outcome net.
InitializeErrors(net) ==
    { AuthOutcome(parsed_request(FALSE, net, i)).exc : i \in IpdbFor(net) }

\* C20 amended: `async with` calls initialize() on entry and shutdown() on
\* exit, in that order, whatever exception the body ended with; when
\* initialize() raises an Exception on entry, shutdown() is invoked and that
\* exception reaches the caller; a cancellation of initialize() reaches the
\* caller with no shutdown() invoked.
C20_ContextManagerOrder ==
    /\ life.inside => (life.cm = <<"initialize">> /\ last.op # "aexit")
    /\ (last.op = "aenter" /\ last.ok /\ tasks["t1"].pc = "idle") =>
          (life.cm = <<"initialize">> /\ life.inside /\ initialized)
    /\ (last.op = "aenter" /\ ~last.ok) =>
          /\ ~life.inside
          /\ last.exc \in InitializeErrors(last.net)
          /\ life.cm = IF last.exc.type = "CancelledError"
                       THEN <<"initialize">> ELSE <<"initialize", "shutdown">>
    /\ last.op = "aexit" =>
          /\ last.ok /\ ~life.inside /\ ~initialized
          /\ life.cm = <<"initialize", "shutdown">>
          /\ life.body \in BodyOutcomes

\* Entering failed with "Could not authenticate ..." and shutdown() was invoked.
C20_Witness ==
    /\ last.op = "aenter" /\ ~last.ok
    /\ last.exc = AuthError(CouldNot, "NetworkError")
    /\ life.cm = <<"initialize", "shutdown">>

(***************************************************************************)
(* Claims about the transport client's life (C21 and C29 under Spec, C28   *)
(* under SpecLife).                                                        *)
(***************************************************************************)
AllIdle == \A t \in Tasks : tasks[t].pc = "idle"

\* C21: once shutdown() has returned the transport client is closed (so that
\* a request fails before any network I/O), from any earlier state, a facade
\* on which initialize() was never called included.
C21_ShutdownClosesClient ==
    (last.op = "shutdown" /\ AllIdle) => closed

\* C28: when `async with` fails on entry, the transport client is closed by
\* the time the exception reaches the caller.
C28_FailedEntryClosesClient ==
    (last.op = "aenter" /\ ~last.ok /\ tasks["t1"].pc = "idle") => closed

\* C29: of concurrent initialize() calls on an object that is not initialized,
\* at most one gets to invoke the session's initialize and authenticate().
C29_OneInitializeAuthenticates ==
    Cardinality({ t \in Tasks : tasks[t].op = "initialize" /\ tasks[t].pc = "auth" }) <= 1

(***************************************************************************)
(* Claims about request parameters (checked under SpecParams).             *)
(***************************************************************************)
\* The elements of es that are files / that are not.
FileElements(es) == SelectSeq(es, LAMBDA e : e.t \in FileTypes)

NonFileElements(es) == SelectSeq(es, LAMBDA e : e.t \notin FileTypes)

\* The direct form of non-file elements: dates as timestamps, objects as dicts.
RECURSIVE DirectForms(_)
DirectForms(es) ==
    IF es = <<>> THEN <<>>
    ELSE <<value_and_input_files_from_input(Head(es))[1]>> \o DirectForms(Tail(es))

Mixing(input) ==
    input.seq /\ FileElements(input.items) # <<>> /\ NonFileElements(input.items) # <<>>

\* C22: for a sequence mixing file and non-file elements passed as one
\* parameter, multipart_data() has one entry per file element and
\* json_parameters holds for the parameter an array with exactly the non-file
\* elements in their order.
C22_OneEntryPerFileElement ==
    (rp.pc = "sent" /\ Mixing(rp.input)) =>
        /\ Len(rp.multipart) = Len(FileElements(rp.input.items))
        /\ ~rp.json.raises
        /\ Len(rp.json.dict) = 1
        /\ rp.json.dict[1][1] = "p"
        /\ loads(rp.json.dict[1][2]) =
              [ok |-> TRUE, value |-> List(DirectForms(NonFileElements(rp.input.items)))]

\* The non-file inputs the claim lists: a string, a number, a boolean, a date,
\* a nested object.
ListedNonFile(input) ==
    ~input.seq /\ input.items[1].t \in {"str", "int", "bool", "date", "obj"}

\* C23: for every listed non-file input, decoding json_value gives a value
\* equal to the parameter's value.
C23_JsonValueRoundTrips ==
    (rp.pc \in {"built", "sent"} /\ ListedNonFile(rp.input)) =>
        /\ ~json_value(rp.param).absent /\ ~json_value(rp.param).raises
        /\ loads(json_value(rp.param).text) = [ok |-> TRUE, value |-> rp.param.value]

\* The raw input is file-like: a file, or a sequence of files.
FileLike(input) ==
    /\ input.items # <<>>
    /\ \A i \in 1 .. Len(input.items) : input.items[i].t \in FileTypes

\* C26: a file-like raw value has no JSON value and its files are carried in
\* input_files; a parameter built from a non-null input has exactly one of a
\* JSON value and files.
C26_JsonValueOrFiles ==
    rp.pc \in {"built", "sent"} =>
        LET jv == json_value(rp.param)
        IN  /\ FileLike(rp.input) =>
                  /\ jv.absent
                  /\ Len(rp.param.input_files) = Len(rp.input.items)
            /\ rp.input # Scalar1(NoneEl) =>
                  ((~jv.absent /\ ~jv.raises) <=> (rp.param.input_files = <<>>))

(***************************************************************************)
(* Claims about streaming and about the sinks of the downloads (checked    *)
(* under SpecBulk).                                                        *)
(***************************************************************************)
\* C24: on a 2xx status the chunks reach the consumer one at a time in arrival
\* order and none is taken from the response before the consumer asks for it;
\* on another status the consumer gets no chunk, and the error is raised only
\* when the whole body has been read.
C24_ChunksOnDemandErrorAfterDrain ==
    \A i \in DOMAIN jobs :
        LET j == jobs[i]
        IN  /\ j.pc \in {"write", "awrite", "drain"} => j.net.t = "resp"
            /\ (j.net.t = "resp" /\ IsSuccess(j.net.code)) =>
                  /\ j.read = IF j.pc = "awrite" THEN j.k + 1 ELSE j.k
                  /\ j.read <= Len(Payload(j.url))
                  /\ j.pc \in {"close", "done"} => (j.ok /\ j.k = Len(Payload(j.url)))
                  /\ j.fn = "download" =>
                        sinkData[j.sink] = SubSeq(Payload(j.url), 1, j.k)
            /\ (j.net.t = "resp" /\ ~IsSuccess(j.net.code)) =>
                  /\ j.k = 0
                  /\ j.fn = "download" => sinkData[j.sink] = <<>>
                  /\ j.pc = "drain" => j.read <= ErrChunks
                  /\ j.pc \in {"close", "done"} =>
                        /\ j.read = ErrChunks
                        /\ ~j.ok /\ j.exc = stream(FALSE, j.net, "missing").exc

\* A download answered with status 403 has raised Forbidden after reading the
\* whole error body, while another one was handed its chunks.
C24_Witness ==
    \E i, i2 \in DOMAIN jobs :
        /\ jobs[i].pc = "done" /\ jobs[i].net.t = "resp" /\ jobs[i].net.code = 403
        /\ jobs[i].read = ErrChunks /\ jobs[i].k = 0
        /\ jobs[i].exc.type = "Forbidden"
        /\ jobs[i2].pc = "write" /\ jobs[i2].k = 1 /\ jobs[i2].read = 1

\* The download holds its destination file open.
Writing(j) == j.opened /\ j.pc \in {"stream", "write", "awrite", "drain", "close"}

\* C25: within one call no two downloads write to the same sink, and no
\* yielded path is a file another download is still writing.
C25_EachDownloadOwnsItsSink ==
    /\ \A i, i2 \in DOMAIN jobs :
          (i # i2 /\ jobs[i].fn = "download" /\ jobs[i].sink # NoSink
                  /\ jobs[i2].sink # NoSink) => jobs[i].sink # jobs[i2].sink
    /\ \A i, i2 \in DOMAIN jobs :
          (i # i2 /\ jobs[i].opened /\ jobs[i2].opened) =>
              JobPath(jobs[i]) # JobPath(jobs[i2])
    /\ bulk.op = "download_many_to_file" =>
          \A y \in 1 .. Len(bulk.yielded) : \A i \in DOMAIN jobs :
              Writing(jobs[i]) => JobPath(jobs[i]) # bulk.yielded[y]

\* C30: a download_to_file that failed leaves at its destination no file it
\* created or truncated: no file, or the file that was there before.
C30_FailedDownloadLeavesNoFile ==
    \A i \in DOMAIN jobs :
        (jobs[i].fn = "download_to_file" /\ jobs[i].pc = "done" /\ ~jobs[i].ok) =>
            \/ JobPath(jobs[i]) \notin fs.exists
            \/ fs.data[JobPath(jobs[i])] = <<"old">>

(***************************************************************************)
(* A claim about authenticate() (checked under Spec).                      *)
(***************************************************************************)
\* C27: every step of an authenticate() call that fails (a missing refresh
\* token, a transport error, an invalid response, a cancellation) leaves the
\* stored tokens and the cached user as they are, and so is_authenticated.
C27_FailedAuthenticateKeepsCredentials ==
    [][ \A t \in Tasks :
          ( \/ /\ tasks[t].pc = "idle"
               /\ tasks'[t].pc = "auth" /\ tasks'[t].op = "authenticate"
            \/ /\ tasks[t].pc = "idle" /\ tasks'[t].pc = "idle"
               /\ last' # last /\ last'.op = "authenticate" /\ ~last'.ok
            \/ /\ tasks[t].pc = "auth" /\ tasks[t].op = "authenticate"
               /\ tasks'[t].pc = "idle" /\ ~last'.ok )
          => /\ UNCHANGED credVars
             /\ is_authenticated(access_token', refresh_token')
                   = is_authenticated(access_token, refresh_token)
      ]_vars

\* A re-authentication of an authenticated facade has failed; the facade is
\* still authenticated and holds its user.
C27_Witness ==
    /\ last.op = "authenticate" /\ ~last.ok /\ last.inv = 1
    /\ last.exc.type = "AuthenticationError"
    /\ is_authenticated(access_token, refresh_token)
    /\ authenticated_user # None
    /\ wire.n = 2

====
